---- MODULE Spec2Model ----
(***************************************************************************)
(* The IP blocking engine of Scripts/ip_blocker.py (class IPBlocker) and   *)
(* the blocklist file it persists to.                                      *)
(*                                                                         *)
(* Time is one integer clock `now`: time.time() and datetime.now() both    *)
(* read it.  The configuration values of Scripts/config.py are scaled down *)
(* to a few clock units (BLOCK_THRESHOLD = 10, CONNECTION_TIMEOUT = 30 s,  *)
(* BLOCK_RESET_INTERVAL = 1 h in config.py); the engine only compares      *)
(* them with counts and with differences of clock readings.                *)
(***************************************************************************)
EXTENDS Integers, Sequences, FiniteSets, TLC

VARIABLES
    now,                  \* the wall clock
    blocked_ips,          \* self.blocked_ips          IP -> block time string
    to_block,             \* self.to_block             IP -> failure score, in halves
    connection_attempts,  \* self.connection_attempts  IP -> list of timestamps
    last_save_state,      \* self._last_save_state     None or a json.dumps text
    last_file_mtime,      \* self._last_file_mtime
    file,                 \* BLOCKLIST_FILE on disk
    tmp_file,             \* BLOCKLIST_FILE.with_suffix('.tmp') on disk
    ret,                  \* value returned by the last engine call (FALSE if none)
    wrote,                \* what the last step did to the file
    last,                 \* the operation of the last step and its address
    calls,                \* observer: in-window track calls per unblocked address
    blockedAt,            \* observer: time the engine blocked an address
    extEdits,             \* observer: external edits of the file so far
    extOmitted,           \* observer: addresses an external rewrite dropped, not yet reconciled
    prev,                 \* observer: the three maps as they were before the last step
    flowOut,              \* what the last hook did to its flow
    pc,                   \* thread-level runs: position of each thread
    t_read,               \* thread-level runs: clock reading each thread took
    t_run,                \* thread-level runs: time each thread's critical section ran
    didBlock,             \* thread-level runs: the call made the transition to Blocked
    nWrites               \* thread-level runs: writes of the file attempted

vars == <<now, blocked_ips, to_block, connection_attempts, last_save_state,
          last_file_mtime, file, tmp_file, ret, wrote, last, calls, blockedAt,
          extEdits, extOmitted, prev, flowOut, pc, t_read, t_run, didBlock, nWrites>>

engineVars == <<blocked_ips, to_block, connection_attempts, last_save_state,
                last_file_mtime, file, tmp_file>>
threadVars == <<pc, t_read, t_run, didBlock, nWrites>>

---------------------------------------------------------------------------
(* Bounds of the model and the scaled configuration.                       *)

\* self.block_threshold (ip_blocker.py:28, BLOCK_THRESHOLD in config.py:26)
block_threshold == 2
\* config.py:28, in clock units
CONNECTION_TIMEOUT == 2
\* config.py:25, in clock units
BLOCK_RESET_INTERVAL == 3
\* the clock runs from 0 to MaxTime
MaxTime == 5
\* external edits of the blocklist file in one run
MaxExtEdits == 1

IPList == <<"10.0.0.1", "10.0.0.2">>
IPs == {IPList[i] : i \in 1..Len(IPList)}
Rank(ip) ==
    IF \E i \in 1..Len(IPList) : IPList[i] = ip
    THEN CHOOSE i \in 1..Len(IPList) : IPList[i] = ip
    ELSE Len(IPList) + 1

EmptyMap == [x \in {} |-> 0]

Range(s) == {s[i] : i \in 1..Len(s)}

---------------------------------------------------------------------------
(* Python dict and list operations.                                        *)

\* d[k] = v
DictSet(d, k, v) == [x \in DOMAIN d \cup {k} |-> IF x = k THEN v ELSE d[x]]
\* del d[k] / d.pop(k, None)
DictPop(d, k) == [x \in DOMAIN d \ {k} |-> d[x]]
\* as FilterAfter, keeping every element
FilterNone(xs, cutoff_time) == xs

\* as FilterAfter, keeping also a time that equals the cutoff
FilterFrom(xs, cutoff_time) == SelectSeq(xs, LAMBDA t : t >= cutoff_time)

\* [t for t in xs if t > cutoff_time]
FilterAfter(xs, cutoff_time) == SelectSeq(xs, LAMBDA t : t > cutoff_time)

---------------------------------------------------------------------------
(* Timestamps as strings: datetime.isoformat / datetime.fromisoformat.     *)

\* datetime.now().isoformat() at clock reading t
isoformat(t) == [text |-> "iso", at |-> t]
\* a string fromisoformat raises ValueError on
JunkStamp == [text |-> "junk", at |-> 0]
\* fromisoformat succeeds
Parsable(s) == s.text = "iso"
\* datetime.fromisoformat(s), for a parsable s
fromisoformat(s) == s.at
\* as Expired, with the block lifted already when its age equals the interval
ExpiredAtInterval(s, t) == t - fromisoformat(s) >= BLOCK_RESET_INTERVAL

\* datetime.now() - block_time > BLOCK_RESET_INTERVAL, ValueError counted as expired
Expired(s, t) == t - fromisoformat(s) > BLOCK_RESET_INTERVAL

---------------------------------------------------------------------------
(* JSON texts.                                                             *)

RECURSIVE SortedKeys(_)
SortedKeys(S) ==
    IF S = {} THEN <<>>
    ELSE LET k == CHOOSE x \in S : \A y \in S : Rank(x) <= Rank(y)
         IN  <<k>> \o SortedKeys(S \ {k})

RECURSIVE JsonMembers(_, _)
\* the members "key": value of d for the keys ks, in that order
JsonMembers(d, ks) ==
    IF ks = <<>> THEN <<>>
    ELSE <<(<<Head(ks), d[Head(ks)]>>)>> \o JsonMembers(d, Tail(ks))

\* json.dumps(d, sort_keys=True): the members of the object in key order
JsonDumps(d) == JsonMembers(d, SortedKeys(DOMAIN d))

RECURSIVE JsonObject(_)
\* json.load of an object text: the dict of its members (a later member wins)
JsonObject(members) ==
    IF members = <<>> THEN EmptyMap
    ELSE LET n == Len(members)
         IN  DictSet(JsonObject(SubSeq(members, 1, n - 1)), members[n][1], members[n][2])

NoFile == [exists |-> FALSE, kind |-> "none", members |-> <<>>, items |-> <<>>, mtime |-> 0]
\* a file holding a JSON object, last modified at time t
ObjectFile(d, t) ==
    [exists |-> TRUE, kind |-> "object", members |-> JsonDumps(d), items |-> <<>>, mtime |-> t]
\* a file holding a JSON array of addresses (the old format)
ArrayFile(ips, t) ==
    [exists |-> TRUE, kind |-> "array", members |-> <<>>, items |-> SortedKeys(ips), mtime |-> t]
\* a file json.load raises on
CorruptFile(t) ==
    [exists |-> TRUE, kind |-> "corrupt", members |-> <<>>, items |-> <<>>, mtime |-> t]
\* a file cut short in the middle of a write
PartialFile(t) ==
    [exists |-> TRUE, kind |-> "partial", members |-> <<>>, items |-> <<>>, mtime |-> t]

NoState == [set |-> FALSE, text |-> <<>>]

---------------------------------------------------------------------------
(* The engine as a record, and IPBlocker's methods as functions of it.     *)
(* b, tb, ca, lss, lfm: the fields of IPBlocker; f, tmp: the two files;    *)
(* w: what the call did to the file; r: the value the call returned.       *)

Engine ==
    [b |-> blocked_ips, tb |-> to_block, ca |-> connection_attempts,
     lss |-> last_save_state, lfm |-> last_file_mtime,
     f |-> file, tmp |-> tmp_file, w |-> "none", r |-> FALSE]

NoTmp == [state |-> "absent", members |-> <<>>, mtime |-> 0]

\* as OpenTmp, opening the target path itself for writing
OpenInPlace(e, t) == [e EXCEPT !.f = PartialFile(t)]

\* open(temp_file, "w"): the temporary file exists and is empty
OpenTmp(e, t) == [e EXCEPT !.tmp = [state |-> "partial", members |-> <<>>, mtime |-> t]]

\* json.dump has written the first n members and f is still open
DumpPart(e, t, n) ==
    [e EXCEPT !.tmp = [state |-> "partial", members |-> SubSeq(JsonDumps(e.b), 1, n),
                       mtime |-> t]]

\* as DumpTmp, writing every entry with the time of the save
DumpTmpRestamped(e, t) ==
    [e EXCEPT !.tmp = [state |-> "complete",
                       members |-> JsonDumps([ip \in DOMAIN e.b |-> isoformat(t)]),
                       mtime |-> t]]

\* json.dump(self.blocked_ips, f, indent=2) has run to its end and f is closed
DumpTmp(e, t) ==
    [e EXCEPT !.tmp = [state |-> "complete", members |-> JsonDumps(e.b), mtime |-> t]]

\* temp_file.replace(BLOCKLIST_FILE): the rename moves whatever the temporary file
\* holds, with its modification time, to the target path
ReplaceTmp(e) ==
    [e EXCEPT !.f = [exists |-> TRUE,
                     kind |-> IF e.tmp.state = "complete" THEN "object" ELSE "partial",
                     members |-> e.tmp.members,
                     items |-> <<>>, mtime |-> e.tmp.mtime],
              !.tmp = NoTmp]

\* lines 105-108: the modification time and the serialization are remembered
RememberSave(e) ==
    [e EXCEPT !.lfm = IF e.f.exists THEN e.f.mtime ELSE e.lfm,
              !.lss = [set |-> TRUE, text |-> JsonDumps(e.b)],
              !.w = "ok"]

\* a write either runs to its end or raises when the temporary file is opened (a
\* failure later in the try block differs only in what it leaves at the temporary
\* path; SpecCrash follows the write step by step)
SaveFaults == {"none", "open"}

\* as WriteFile, with the serialization remembered although the write raised
WriteFileRemembersFailure(e, t, fault) ==
    IF fault = "open"
    THEN [e EXCEPT !.w = "failed", !.lss = [set |-> TRUE, text |-> JsonDumps(e.b)]]
    ELSE RememberSave(ReplaceTmp(DumpTmp(OpenTmp(e, t), t)))

\* the try block of _save_blocked_ips
WriteFile(e, t, fault) ==
    IF fault = "open" THEN [e EXCEPT !.w = "failed"]
    ELSE RememberSave(ReplaceTmp(DumpTmp(OpenTmp(e, t), t)))

\* current_state == self._last_save_state
SameAsLastSave(e) == e.lss.set /\ e.lss.text = JsonDumps(e.b)

\* IPBlocker._save_blocked_ips
save_blocked_ips(e, t, fault) ==
    IF SameAsLastSave(e) THEN [e EXCEPT !.w = "skipped"] ELSE WriteFile(e, t, fault)

\* as LoadedRecord, stamping the addresses of an old-format file with the file's
\* modification time
LoadedRecordFileTime(f, t) ==
    CASE f.kind = "object" -> JsonObject(f.members)
      [] f.kind = "array" -> [ip \in Range(f.items) |-> isoformat(f.mtime)]
      [] OTHER -> EmptyMap

\* what json.load and the isinstance branch of _load_blocked_ips produce
LoadedRecord(f, t) ==
    CASE f.kind = "object" -> JsonObject(f.members)
      [] f.kind = "array" -> [ip \in Range(f.items) |-> isoformat(t)]
      [] OTHER -> EmptyMap

\* as load_blocked_ips, keeping the record in memory when the file cannot be parsed
load_keeps_record(e, t) ==
    IF ~e.f.exists THEN e
    ELSE IF e.f.kind \in {"object", "array"}
         THEN [e EXCEPT !.lfm = e.f.mtime, !.b = LoadedRecord(e.f, t)]
         ELSE [e EXCEPT !.lfm = e.f.mtime]

\* IPBlocker._load_blocked_ips
load_blocked_ips(e, t) ==
    IF ~e.f.exists THEN e
    ELSE [e EXCEPT !.lfm = e.f.mtime, !.b = LoadedRecord(e.f, t)]

\* as check_external_changes, dropping scores and attempts with the blocks when the
\* file is gone
check_external_clears_all(e, t) ==
    IF ~e.f.exists
    THEN [e EXCEPT !.b = EmptyMap, !.tb = EmptyMap, !.ca = EmptyMap, !.lfm = 0]
    ELSE IF e.f.mtime > e.lfm THEN load_blocked_ips(e, t) ELSE e

\* IPBlocker._check_external_changes
check_external_changes(e, t) ==
    IF ~e.f.exists
    THEN IF e.b # EmptyMap THEN [e EXCEPT !.b = EmptyMap, !.lfm = 0] ELSE e
    ELSE IF e.f.mtime > e.lfm THEN load_blocked_ips(e, t) ELSE e

\* del blocked_ips[ip]; to_block.pop(ip); connection_attempts.pop(ip), for each ip
Forget(e, ips) ==
    [e EXCEPT !.b = [x \in DOMAIN e.b \ ips |-> e.b[x]],
              !.tb = [x \in DOMAIN e.tb \ ips |-> e.tb[x]],
              !.ca = [x \in DOMAIN e.ca \ ips |-> e.ca[x]]]

\* the addresses _cleanup_expired_blocks collects in to_unblock
ToUnblock(e, t) ==
    {ip \in DOMAIN e.b : ~Parsable(e.b[ip]) \/ Expired(e.b[ip], t)}

\* IPBlocker._cleanup_expired_blocks; current_time is read before the lock is taken
cleanup_expired_blocks(e, current_time, t, fault) ==
    IF ToUnblock(e, current_time) = {} THEN e
    ELSE save_blocked_ips(Forget(e, ToUnblock(e, current_time)), t, fault)

\* as cleanup_old_connections, leaving the addresses whose attempts are all old
\* with an empty list
cleanup_keeps_empty(e, current_time) ==
    [e EXCEPT !.ca = [ip \in DOMAIN e.ca |->
                         FilterAfter(e.ca[ip], current_time - CONNECTION_TIMEOUT)]]

\* IPBlocker._cleanup_old_connections
cleanup_old_connections(e, current_time) ==
    LET cutoff_time == current_time - CONNECTION_TIMEOUT
        kept == [ip \in DOMAIN e.ca |-> FilterAfter(e.ca[ip], cutoff_time)]
    IN  [e EXCEPT !.ca = [ip \in {x \in DOMAIN kept : kept[x] # <<>>} |-> kept[ip]]]

\* as OverThreshold, blocking one attempt late
OverThresholdLate(attempt_count) == attempt_count > block_threshold

\* attempt_count >= self.block_threshold
OverThreshold(attempt_count) == attempt_count >= block_threshold

\* as WindowAfter, counting the attempt of this call only
WindowOfCallOnly(e, ip, current_time) == <<current_time>>

\* the attempts of ip after the append and the filter (lines 216-223)
WindowAfter(e, ip, current_time) ==
    FilterAfter((IF ip \in DOMAIN e.ca THEN e.ca[ip] ELSE <<>>) \o <<current_time>>,
                current_time - CONNECTION_TIMEOUT)

\* the entry of ip is set to the time of the call, its score and its attempts are
\* dropped (lines 230-232, and the same in block_ip and increment_failure_count)
MarkBlocked(e, ip, t) ==
    [e EXCEPT !.b = DictSet(e.b, ip, isoformat(t)),
              !.tb = DictPop(e.tb, ip),
              !.ca = DictPop(e.ca, ip)]

\* as track_connection_attempt, recording the attempt of a blocked address too
track_records_blocked(e, ip, current_time, t, fault) ==
    LET window == WindowAfter(e, ip, current_time)
    IN  IF ip \in DOMAIN e.b
        THEN [e EXCEPT !.ca = DictSet(e.ca, ip, window), !.r = TRUE]
        ELSE IF OverThreshold(Len(window))
             THEN [save_blocked_ips(MarkBlocked(e, ip, t), t, fault) EXCEPT !.r = TRUE]
             ELSE [e EXCEPT !.ca = DictSet(e.ca, ip, window), !.r = FALSE]

\* IPBlocker.track_connection_attempt; current_time is read before the lock is taken
track_connection_attempt(e, ip, current_time, t, fault) ==
    IF ip \in DOMAIN e.b THEN [e EXCEPT !.r = TRUE]
    ELSE LET window == WindowAfter(e, ip, current_time)
         IN  IF OverThreshold(Len(window))
             THEN [save_blocked_ips(MarkBlocked(e, ip, t), t, fault) EXCEPT !.r = TRUE]
             ELSE [e EXCEPT !.ca = DictSet(e.ca, ip, window), !.r = FALSE]

\* track_connection_attempt when _check_external_changes of the cleanup thread, which
\* takes no lock, runs between the assignments of lines 230-232 and the save
track_connection_attempt_raced(e, ip, current_time, t, fault) ==
    IF ip \in DOMAIN e.b THEN [e EXCEPT !.r = TRUE]
    ELSE LET window == WindowAfter(e, ip, current_time)
         IN  IF OverThreshold(Len(window))
             THEN [save_blocked_ips(check_external_changes(MarkBlocked(e, ip, t), t),
                                    t, fault)
                   EXCEPT !.r = TRUE]
             ELSE [e EXCEPT !.ca = DictSet(e.ca, ip, window), !.r = FALSE]

\* IPBlocker.is_ip_blocked
is_ip_blocked(e, ip, t, fault) ==
    IF ip \notin DOMAIN e.b THEN [e EXCEPT !.r = FALSE]
    ELSE IF ~Parsable(e.b[ip]) THEN [e EXCEPT !.b = DictPop(e.b, ip), !.r = FALSE]
    ELSE IF Expired(e.b[ip], t)
         THEN [save_blocked_ips(Forget(e, {ip}), t, fault) EXCEPT !.r = FALSE]
         ELSE [e EXCEPT !.r = TRUE]

\* as block_ip, with the attempt window of the address left in place
block_ip_keeps_window(e, ip, t, fault) ==
    save_blocked_ips([e EXCEPT !.b = DictSet(e.b, ip, isoformat(t)),
                               !.tb = DictPop(e.tb, ip)], t, fault)

\* IPBlocker.block_ip
block_ip(e, ip, t, fault) == save_blocked_ips(MarkBlocked(e, ip, t), t, fault)

\* as unblock_ip, clearing and saving before it looks whether ip is blocked
unblock_ip_clears_first(e, ip, t, fault) ==
    [save_blocked_ips(Forget(e, {ip}), t, fault) EXCEPT !.r = ip \in DOMAIN e.b]

\* IPBlocker.unblock_ip
unblock_ip(e, ip, t, fault) ==
    IF ip \in DOMAIN e.b
    THEN [save_blocked_ips(Forget(e, {ip}), t, fault) EXCEPT !.r = TRUE]
    ELSE [e EXCEPT !.r = FALSE]

\* self.to_block[ip], a defaultdict(int), counted in halves
Score(e, ip) == IF ip \in DOMAIN e.tb THEN e.tb[ip] ELSE 0

\* as increment_failure_count, with the score growing by one whole per failure
increment_counts_whole(e, ip, t, fault) ==
    IF ip \in DOMAIN e.b THEN [e EXCEPT !.r = FALSE]
    ELSE IF Score(e, ip) + 2 >= 2 * block_threshold
         THEN [save_blocked_ips(MarkBlocked(e, ip, t), t, fault) EXCEPT !.r = TRUE]
         ELSE [e EXCEPT !.tb = DictSet(e.tb, ip, Score(e, ip) + 2), !.r = FALSE]

\* IPBlocker.increment_failure_count; the score grows by 1/2, one half here
increment_failure_count(e, ip, t, fault) ==
    IF ip \in DOMAIN e.b THEN [e EXCEPT !.r = FALSE]
    ELSE IF Score(e, ip) + 1 >= 2 * block_threshold
         THEN [save_blocked_ips(MarkBlocked(e, ip, t), t, fault) EXCEPT !.r = TRUE]
         ELSE [e EXCEPT !.tb = DictSet(e.tb, ip, Score(e, ip) + 1), !.r = FALSE]

\* as reset_failure_count, taking one increment off the score
reset_takes_one_off(e, ip) ==
    IF Score(e, ip) > 1 THEN [e EXCEPT !.tb = DictSet(e.tb, ip, Score(e, ip) - 1)]
    ELSE [e EXCEPT !.tb = DictPop(e.tb, ip)]

\* IPBlocker.reset_failure_count
reset_failure_count(e, ip) == [e EXCEPT !.tb = DictPop(e.tb, ip)]

\* as periodic_cleanup, without the pass over the expired blocks
periodic_cleanup_no_expiry(e, t, fault) ==
    cleanup_old_connections(check_external_changes(e, t), t)

\* as periodic_cleanup, without the pass over the old connection attempts
periodic_cleanup_no_prune(e, t, fault) ==
    cleanup_expired_blocks(check_external_changes(e, t), t, t, fault)

\* one pass of the loop of IPBlocker._periodic_cleanup
periodic_cleanup(e, t, fault) ==
    cleanup_old_connections(
        cleanup_expired_blocks(check_external_changes(e, t), t, t, fault), t)

---------------------------------------------------------------------------
(* The operations as atomic steps: every public method runs its body under *)
(* self.lock, and here the cleanup pass runs without another thread in     *)
(* between.                                                                *)

\* the fields and files after a call, its return value and its file effect
Commit(e) ==
    /\ blocked_ips' = e.b
    /\ to_block' = e.tb
    /\ connection_attempts' = e.ca
    /\ last_save_state' = e.lss
    /\ last_file_mtime' = e.lfm
    /\ file' = e.f
    /\ tmp_file' = e.tmp
    /\ wrote' = e.w
    /\ ret' = e.r

\* time passes, up to the horizon of the run
Tick(horizon) ==
    /\ now < horizon
    /\ now' = now + 1
    /\ ret' = FALSE
    /\ wrote' = "none"
    /\ UNCHANGED engineVars

TrackConnectionAttempt(ip) ==
    /\ \E fault \in SaveFaults : Commit(track_connection_attempt(Engine, ip, now, now, fault))
    /\ UNCHANGED now

IsIpBlocked(ip) ==
    /\ \E fault \in SaveFaults : Commit(is_ip_blocked(Engine, ip, now, fault))
    /\ UNCHANGED now

BlockIp(ip) ==
    /\ \E fault \in SaveFaults : Commit(block_ip(Engine, ip, now, fault))
    /\ UNCHANGED now

UnblockIp(ip) ==
    /\ \E fault \in SaveFaults : Commit(unblock_ip(Engine, ip, now, fault))
    /\ UNCHANGED now

IncrementFailureCount(ip) ==
    /\ \E fault \in SaveFaults : Commit(increment_failure_count(Engine, ip, now, fault))
    /\ UNCHANGED now

ResetFailureCount(ip) ==
    /\ Commit(reset_failure_count(Engine, ip))
    /\ UNCHANGED now

\* one wake-up of the cleanup thread
CleanupTick ==
    /\ \E fault \in SaveFaults : Commit(periodic_cleanup(Engine, now, fault))
    /\ UNCHANGED now

---------------------------------------------------------------------------
(* The other writer of the blocklist file (an operator or a sibling        *)
(* process): it rewrites the file from what the file holds.                *)

\* what a reader finds in the file
FileRecord == IF file.kind = "object" THEN JsonObject(file.members) ELSE EmptyMap

ExternalWrite(f) ==
    /\ extEdits < MaxExtEdits
    /\ file' = f
    /\ ret' = FALSE
    /\ wrote' = "none"
    /\ UNCHANGED <<now, blocked_ips, to_block, connection_attempts, last_save_state,
                   last_file_mtime, tmp_file>>

\* the file rewritten without ip
ExternalRemove(ip) ==
    /\ file.kind = "object"
    /\ ip \in DOMAIN FileRecord
    /\ ExternalWrite(ObjectFile(DictPop(FileRecord, ip), now))

\* the file rewritten with an entry for ip
ExternalAdd(ip, stamp) ==
    /\ ip \notin DOMAIN FileRecord
    /\ ExternalWrite(ObjectFile(DictSet(FileRecord, ip, stamp), now))

\* the file removed
ExternalDelete ==
    /\ file.exists
    /\ ExternalWrite(NoFile)

---------------------------------------------------------------------------
(* Observers: they record what a run did and change nothing of the engine. *)

\* the entry of ip in blocked_ips is new or differs after the step
Stamped(ip) ==
    /\ ip \in DOMAIN blocked_ips'
    /\ ip \notin DOMAIN blocked_ips \/ blocked_ips'[ip] # blocked_ips[ip]

\* the calls of s that lie less than CONNECTION_TIMEOUT before t
Recent(s, t) == SelectSeq(s, LAMBDA x : t - x < CONNECTION_TIMEOUT)

\* tracked: the addresses a track call was made for in this step;
\* cleared: the addresses whose block was set or lifted by unblock_ip or by the
\* reconciliation with the file;  t: the time after the step
Observe(tracked, cleared, t) ==
    /\ calls' = [ip \in IPs |->
          IF ip \in DOMAIN blocked_ips \/ ip \in DOMAIN blocked_ips' THEN <<>>
          ELSE IF ip \in tracked /\ Len(calls[ip]) < block_threshold
               THEN Recent(Append(calls[ip], now), t)
               ELSE Recent(calls[ip], t)]
    /\ blockedAt' = [ip \in IPs |->
          IF ip \in cleared THEN -1
          ELSE IF Stamped(ip) THEN now
          ELSE blockedAt[ip]]

\* the addresses blocked in memory that the rewritten file f no longer holds,
\* when the rewrite moved the modification time past the one this process saw
Omitted(f) ==
    IF f.exists /\ f.mtime > last_file_mtime
    THEN {ip \in DOMAIN blocked_ips : ip \notin DOMAIN LoadedRecord(f, now)}
    ELSE {}

\* the addresses whose entry the external-change check of a cleanup pass changes
Reloaded ==
    {ip \in IPs :
        LET e == check_external_changes(Engine, now)
        IN  \/ (ip \in DOMAIN blocked_ips) # (ip \in DOMAIN e.b)
            \/ ip \in DOMAIN blocked_ips /\ ip \in DOMAIN e.b /\ e.b[ip] # blocked_ips[ip]}

\* the step was the call op(ip), or the step op of the clock, the cleanup thread
\* or the other writer
Did(op, ip) == last' = <<op, ip>>

\* a step of the other writer
External ==
    /\ extOmitted' = Omitted(file')
    /\ extEdits' = extEdits + 1

\* a step of this process that is no cleanup pass
Foreground ==
    /\ extOmitted' = {ip \in extOmitted : ~Stamped(ip)}
    /\ UNCHANGED extEdits

\* a cleanup pass
Background ==
    /\ extOmitted' = {}
    /\ UNCHANGED extEdits

---------------------------------------------------------------------------
(* Construction.                                                           *)

\* IPBlocker.__init__ at time t, with f on disk
Constructed(f, t) ==
    load_blocked_ips([b |-> EmptyMap, tb |-> EmptyMap, ca |-> EmptyMap,
                      lss |-> NoState, lfm |-> 0, f |-> f, tmp |-> NoTmp,
                      w |-> "none", r |-> FALSE], t)

\* the process has just been constructed as e
Started(e) ==
    /\ blocked_ips = e.b
    /\ to_block = e.tb
    /\ connection_attempts = e.ca
    /\ last_save_state = e.lss
    /\ last_file_mtime = e.lfm
    /\ file = e.f
    /\ tmp_file = e.tmp
    /\ wrote = "none"
    /\ ret = FALSE
    /\ last = <<"__init__", "">>

\* the blocklist files a process may find when it starts
InitFiles ==
    {NoFile, ObjectFile([ip \in {IPList[1]} |-> isoformat(1)], 1)}

\* no hook has run: nothing killed, extracted, captured or raised
NoFlowOut == [killed |-> FALSE, tokens |-> FALSE, har |-> FALSE, exc |-> "none"]

NoObservers ==
    /\ calls = [ip \in IPs |-> <<>>]
    /\ blockedAt = [ip \in IPs |-> -1]
    /\ extEdits = 0
    /\ extOmitted = {}
    /\ prev = [b |-> EmptyMap, tb |-> EmptyMap, ca |-> EmptyMap]
    /\ flowOut = NoFlowOut

NoThreads ==
    /\ pc = <<>>
    /\ t_read = <<>>
    /\ t_run = <<>>
    /\ didBlock = <<>>
    /\ nWrites = 0

Init ==
    /\ now = 1
    /\ \E f \in InitFiles : Started(Constructed(f, 1))
    /\ NoObservers
    /\ NoThreads

---------------------------------------------------------------------------
(* Spec: rate limiting and expiry.  Connection attempts, liveness checks,  *)
(* administrative block and unblock, and the cleanup pass; a write of the  *)
(* file may fail.                                                          *)

RateStep(tracked, cleared, t) ==
    /\ Observe(tracked, cleared, t)
    /\ UNCHANGED <<extEdits, extOmitted, prev, flowOut>>
    /\ UNCHANGED threadVars

Next ==
    \/ Tick(MaxTime) /\ Did("tick", "") /\ RateStep({}, {}, now + 1)
    \/ \E ip \in IPs : /\ TrackConnectionAttempt(ip)
                       /\ Did("track_connection_attempt", ip)
                       /\ RateStep({ip}, {}, now)
    \/ \E ip \in IPs : IsIpBlocked(ip) /\ Did("is_ip_blocked", ip) /\ RateStep({}, {}, now)
    \/ \E ip \in IPs : BlockIp(ip) /\ Did("block_ip", ip) /\ RateStep({}, {}, now)
    \/ \E ip \in IPs : UnblockIp(ip) /\ Did("unblock_ip", ip) /\ RateStep({}, {ip}, now)
    \/ CleanupTick /\ Did("periodic_cleanup", "") /\ RateStep({}, Reloaded, now)

Spec == Init /\ [][Next]_vars

\* C1: a call of track_connection_attempt(ip) on an address that is not blocked,
\* made when block_threshold - 1 earlier calls for ip lie less than
\* CONNECTION_TIMEOUT back (with ip neither blocked nor unblocked in between), puts
\* ip into blocked_ips and returns true, and is_ip_blocked(ip) called right after
\* it returns true.
C1_ThresholdBlocks ==
    [][\A ip \in IPs :
          (/\ Did("track_connection_attempt", ip)
           /\ ip \notin DOMAIN blocked_ips
           /\ Len(calls[ip]) + 1 >= block_threshold)
          => (/\ ip \in DOMAIN blocked_ips'
              /\ ret'
              /\ is_ip_blocked(Engine', ip, now', "none").r)]_vars

\* C1 witness: after the clock has moved, a call that reached the threshold has
\* just blocked the address with the time of the call and written the file.
C1_Witness ==
    \E ip \in IPs :
        /\ last = <<"track_connection_attempt", ip>>
        /\ ret
        /\ wrote = "ok"
        /\ now > 1
        /\ ip \in DOMAIN blocked_ips
        /\ blocked_ips[ip] = isoformat(now)
        /\ ip \in DOMAIN FileRecord

---------------------------------------------------------------------------
(* SpecFile: the blocklist file shared with another writer, within one     *)
(* reset interval.                                                         *)

FileStep ==
    /\ UNCHANGED <<calls, blockedAt, prev, flowOut>>
    /\ UNCHANGED threadVars

NextFile ==
    \/ Tick(BLOCK_RESET_INTERVAL) /\ Did("tick", "") /\ Foreground /\ FileStep
    \/ \E ip \in IPs : BlockIp(ip) /\ Did("block_ip", ip) /\ Foreground /\ FileStep
    \/ \E ip \in IPs : UnblockIp(ip) /\ Did("unblock_ip", ip) /\ Foreground /\ FileStep
    \/ CleanupTick /\ Did("periodic_cleanup", "") /\ Background /\ FileStep
    \/ \E ip \in IPs : ExternalRemove(ip) /\ Did("external", ip) /\ External /\ FileStep
    \/ \E ip \in IPs : /\ ExternalAdd(ip, isoformat(now))
                       /\ Did("external", ip)
                       /\ External
                       /\ FileStep
    \/ ExternalDelete /\ Did("external", "") /\ External /\ FileStep

SpecFile == Init /\ [][NextFile]_vars

\* C4: when an external rewrite of the file has dropped an address that is blocked
\* in memory and has moved the modification time past the one this process saw,
\* the next cleanup pass leaves the address out of blocked_ips, whatever
\* foreground calls ran in between.
C4_ExternalRemovalReconciled ==
    [][\A ip \in IPs :
          (Did("periodic_cleanup", "") /\ ip \in extOmitted)
          => ip \notin DOMAIN blocked_ips']_vars

\* C5: with no other writer at work, a cleanup pass never takes an address out of
\* blocked_ips whose block has not expired, whether or not the writes of the file
\* succeeded.
C5_MemoryAuthoritative ==
    [][\A ip \in IPs :
          (/\ Did("periodic_cleanup", "")
           /\ extEdits = 0
           /\ ip \in DOMAIN blocked_ips
           /\ Parsable(blocked_ips[ip])
           /\ ~Expired(blocked_ips[ip], now))
          => ip \in DOMAIN blocked_ips']_vars

\* C6: after unblock_ip(ip) has returned true and the write has not failed, the
\* file does not hold ip.
C6_UnblockedLeavesFile ==
    [][\A ip \in IPs :
          (Did("unblock_ip", ip) /\ ret' /\ wrote' # "failed")
          => ip \notin DOMAIN FileRecord']_vars

\* the in-memory record after the step has the serialization last written
StillAsWritten == last_save_state.set /\ last_save_state.text = JsonDumps(blocked_ips')

\* C10: a save writes the file exactly when the serialization of blocked_ips
\* differs from the one of the last write that succeeded: with the same
\* serialization nothing is written, a write that succeeds installs the
\* serialization in the file and remembers it, and a write that fails leaves file
\* and remembered serialization as they were, so that the next save writes again.
C10_SaveWritesIffChanged ==
    [][/\ wrote' = "skipped" =>
            StillAsWritten /\ file' = file /\ last_save_state' = last_save_state
       /\ wrote' \in {"ok", "failed"} => ~StillAsWritten
       /\ wrote' = "ok" =>
            /\ file'.kind = "object"
            /\ file'.members = JsonDumps(blocked_ips')
            /\ last_save_state' = [set |-> TRUE, text |-> JsonDumps(blocked_ips')]
       /\ wrote' = "failed" =>
            /\ file' = file
            /\ last_save_state' = last_save_state
            /\ \A fault \in SaveFaults :
                  save_blocked_ips(Engine', now', fault).w # "skipped"
       /\ wrote' = "none" => last_save_state' = last_save_state]_vars

\* C10 witness: a write has failed after an earlier one succeeded, and the
\* remembered serialization is still the earlier one.
C10_Witness ==
    /\ wrote = "failed"
    /\ last_save_state.set
    /\ blocked_ips # EmptyMap
    /\ last_save_state.text # JsonDumps(blocked_ips)

---------------------------------------------------------------------------
(* SpecScore: the three states of an address, within one attempt window.   *)
(* Connection attempts and failure scores put an address into Tracking,    *)
(* block and unblock move it in and out of Blocked.                        *)

ScoreStep ==
    /\ UNCHANGED <<calls, blockedAt, extEdits, extOmitted, prev, flowOut>>
    /\ UNCHANGED threadVars

NextScore ==
    \/ Tick(CONNECTION_TIMEOUT) /\ Did("tick", "") /\ ScoreStep
    \/ \E ip \in IPs : /\ TrackConnectionAttempt(ip)
                       /\ Did("track_connection_attempt", ip)
                       /\ ScoreStep
    \/ \E ip \in IPs : /\ IncrementFailureCount(ip)
                       /\ Did("increment_failure_count", ip)
                       /\ ScoreStep
    \/ \E ip \in IPs : /\ ResetFailureCount(ip)
                       /\ Did("reset_failure_count", ip)
                       /\ ScoreStep
    \/ \E ip \in IPs : BlockIp(ip) /\ Did("block_ip", ip) /\ ScoreStep
    \/ \E ip \in IPs : UnblockIp(ip) /\ Did("unblock_ip", ip) /\ ScoreStep

SpecScore == Init /\ [][NextScore]_vars

\* C7: unblock_ip(ip) returns true exactly when ip is in blocked_ips; it leaves ip
\* out of blocked_ips, so that a second call right after it returns false; and on
\* an address that is not blocked it changes neither blocked_ips,
\* connection_attempts, to_block nor the file.
C7_UnblockReturnsMembership ==
    [][\A ip \in IPs :
          Did("unblock_ip", ip)
          => (/\ ret' = (ip \in DOMAIN blocked_ips)
              /\ ip \notin DOMAIN blocked_ips'
              /\ \A fault \in SaveFaults : ~unblock_ip(Engine', ip, now', fault).r
              /\ ip \notin DOMAIN blocked_ips
                    => (/\ wrote' = "none"
                        /\ UNCHANGED <<blocked_ips, connection_attempts, to_block,
                                       file>>))]_vars

\* C7 witness: unblock_ip has returned false for an address in Tracking, with
\* attempts and a failure score, while another address is blocked.
C7_Witness ==
    \E ip \in IPs :
        /\ last = <<"unblock_ip", ip>>
        /\ ~ret
        /\ ip \in DOMAIN connection_attempts
        /\ ip \in DOMAIN to_block
        /\ blocked_ips # EmptyMap

\* C8: block_ip(ip), from any state of ip, leaves ip in blocked_ips with the time
\* of the call (so the second of two calls leaves the second call's time), leaves
\* ip with neither attempts nor failure score, leaves the entries of the other
\* addresses as they were, and saves: unless the write fails the file holds the
\* record.
C8_BlockIpSetsEntry ==
    [][\A ip \in IPs :
          Did("block_ip", ip)
          => (/\ DOMAIN blocked_ips' = DOMAIN blocked_ips \cup {ip}
              /\ blocked_ips'[ip] = isoformat(now)
              /\ \A other \in DOMAIN blocked_ips \ {ip} :
                    blocked_ips'[other] = blocked_ips[other]
              /\ ip \notin DOMAIN connection_attempts'
              /\ ip \notin DOMAIN to_block'
              /\ wrote' # "none"
              /\ wrote' # "failed" =>
                    file'.kind = "object" /\ JsonObject(file'.members) = blocked_ips')]_vars

\* C8 witness: block_ip has blocked an address and written the file, at a later
\* time than the other address was blocked.
C8_Witness ==
    \E ip \in IPs, other \in IPs :
        /\ last = <<"block_ip", ip>>
        /\ wrote = "ok"
        /\ other # ip
        /\ other \in DOMAIN blocked_ips
        /\ blocked_ips[ip] = isoformat(now)
        /\ blocked_ips[other] # isoformat(now)

\* C22: a call of increment_failure_count(ip) on an address that is not blocked is
\* call number n when n - 1 calls have been made since the score of ip was absent
\* (the score holds them, in halves).  It returns false for n < 2*block_threshold,
\* leaving the score one half higher and ip unblocked; call number
\* 2*block_threshold returns true, puts ip into blocked_ips with the time of the
\* call, drops the score and the attempts of ip and saves: unless the write fails
\* the file holds the record.  A call on a blocked address changes nothing and
\* returns false.
C22_FailureCountBlocks ==
    [][\A ip \in IPs :
          Did("increment_failure_count", ip)
          => IF ip \in DOMAIN blocked_ips
             THEN /\ ret' = FALSE
                  /\ wrote' = "none"
                  /\ UNCHANGED <<blocked_ips, to_block, connection_attempts, file>>
             ELSE LET n == (IF ip \in DOMAIN to_block THEN to_block[ip] ELSE 0) + 1
                  IN  /\ n <= 2 * block_threshold
                      /\ ret' = (n = 2 * block_threshold)
                      /\ n < 2 * block_threshold
                            => /\ ip \in DOMAIN to_block' /\ to_block'[ip] = n
                               /\ UNCHANGED <<blocked_ips, connection_attempts, file>>
                      /\ n = 2 * block_threshold
                            => /\ ip \in DOMAIN blocked_ips'
                               /\ blocked_ips'[ip] = isoformat(now)
                               /\ ip \notin DOMAIN to_block'
                               /\ ip \notin DOMAIN connection_attempts'
                               /\ wrote' # "none"
                               /\ wrote' # "failed" =>
                                     /\ file'.kind = "object"
                                     /\ JsonObject(file'.members) = blocked_ips']_vars

\* C22 witness: the call of increment_failure_count that blocked an address and
\* wrote the file, while the other address keeps its score.
C22_Witness ==
    \E ip \in IPs, other \in IPs :
        /\ last = <<"increment_failure_count", ip>>
        /\ ret
        /\ wrote = "ok"
        /\ blocked_ips[ip] = isoformat(now)
        /\ other # ip
        /\ other \in DOMAIN to_block

---------------------------------------------------------------------------
(* SpecThreads: block_threshold threads call track_connection_attempt for  *)
(* one address.  A thread reads the clock, then waits for the lock, then   *)
(* runs the body of the call under the lock; the clock and the cleanup     *)
(* thread move in between.                                                 *)

Threads == 1..block_threshold

\* the address the threads call for
Target == IPList[2]

InitThreads ==
    /\ now = 1
    /\ \E f \in InitFiles : Started(Constructed(f, 1))
    /\ NoObservers
    /\ pc = [i \in Threads |-> "start"]
    /\ t_read = [i \in Threads |-> 0]
    /\ t_run = [i \in Threads |-> 0]
    /\ didBlock = [i \in Threads |-> FALSE]
    /\ nWrites = 0

\* line 208: current_time = time.time()
ReadClock(i) ==
    /\ pc[i] = "start"
    /\ pc' = [pc EXCEPT ![i] = "locking"]
    /\ t_read' = [t_read EXCEPT ![i] = now]
    /\ ret' = FALSE
    /\ wrote' = "none"
    /\ UNCHANGED <<now, engineVars, t_run, didBlock, nWrites>>

\* lines 210-242: the body under the lock
RunTrack(i) ==
    /\ pc[i] = "locking"
    /\ \E fault \in SaveFaults, raced \in BOOLEAN :
          Commit(IF raced
                 THEN track_connection_attempt_raced(Engine, Target, t_read[i], now, fault)
                 ELSE track_connection_attempt(Engine, Target, t_read[i], now, fault))
    /\ pc' = [pc EXCEPT ![i] = "done"]
    /\ t_run' = [t_run EXCEPT ![i] = now]
    /\ didBlock' = [didBlock EXCEPT ![i] = Target \notin DOMAIN blocked_ips /\ ret']
    /\ nWrites' = nWrites + (IF wrote' \in {"ok", "failed"} THEN 1 ELSE 0)
    /\ UNCHANGED <<now, t_read>>

ThreadStep == UNCHANGED <<calls, blockedAt, extEdits, extOmitted, prev, flowOut>>

NextThreads ==
    \/ Tick(CONNECTION_TIMEOUT + 1) /\ Did("tick", "") /\ ThreadStep /\ UNCHANGED threadVars
    \/ \E i \in Threads : ReadClock(i) /\ Did("time", Target) /\ ThreadStep
    \/ \E i \in Threads : RunTrack(i) /\ Did("track_connection_attempt", Target) /\ ThreadStep
    \/ CleanupTick /\ Did("periodic_cleanup", "") /\ ThreadStep /\ UNCHANGED threadVars

SpecThreads == InitThreads /\ [][NextThreads]_vars

\* the calls that made the transition of the address to Blocked
Blockers == {i \in DOMAIN didBlock : didBlock[i]}

AllDone == pc # <<>> /\ \A i \in DOMAIN pc : pc[i] = "done"

\* every call ran less than CONNECTION_TIMEOUT after every clock reading
InOneWindow == \A i, j \in DOMAIN pc : t_run[i] - t_read[j] < CONNECTION_TIMEOUT

\* C3: of block_threshold concurrent calls of track_connection_attempt for an
\* address that is not blocked, never more than one makes the transition to
\* Blocked, the file is written once for each transition and never otherwise, and
\* when all calls have run inside one window exactly one of them has made the
\* transition and exactly one write of the file has been made.
C3_ExactlyOneBlocks ==
    /\ Cardinality(Blockers) <= 1
    /\ nWrites = Cardinality(Blockers)
    /\ (AllDone /\ InOneWindow) => (Cardinality(Blockers) = 1 /\ nWrites = 1)

\* C3 witness: all calls have run inside one window, and the one that blocked the
\* address ran under the lock at a later time than it had read the clock.
C3_Witness ==
    /\ AllDone
    /\ InOneWindow
    /\ nWrites = 1
    /\ \E i \in Blockers : t_read[i] < t_run[i]

---------------------------------------------------------------------------
(* SpecCrash: _save_blocked_ips step by step.  block_ip or unblock_ip      *)
(* changes the record and enters the save; the save opens the temporary    *)
(* file, writes it, closes it, renames it and remembers what it wrote.     *)
(* Each step may raise, and the process may die at any step and be started *)
(* again.                                                                  *)

InitCrash ==
    /\ now = 1
    /\ \E f \in InitFiles : Started(Constructed(f, 1))
    /\ NoObservers
    /\ pc = <<"idle">>
    /\ t_read = <<>>
    /\ t_run = <<>>
    /\ didBlock = <<>>
    /\ nWrites = 0

\* the save goes on from e and stands before the step named by at
SaveStep(e, at) ==
    /\ Commit(e)
    /\ pc' = <<at>>
    /\ UNCHANGED now

\* lines 93-95: the comparison with the serialization last written
BeginSave(e) ==
    IF SameAsLastSave(e) THEN SaveStep([e EXCEPT !.w = "skipped"], "idle")
    ELSE SaveStep(e, "open")

\* lines 282-286 of block_ip, up to the entry into the save
BlockIpEnter(ip) ==
    /\ pc = <<"idle">>
    /\ BeginSave(MarkBlocked(Engine, ip, now))

\* lines 304-309 of unblock_ip, up to the entry into the save
UnblockIpEnter(ip) ==
    /\ pc = <<"idle">>
    /\ IF ip \in DOMAIN blocked_ips
       THEN BeginSave([Forget(Engine, {ip}) EXCEPT !.r = TRUE])
       ELSE SaveStep(Engine, "idle")

\* line 100: open(temp_file, "w")
OpenTemp ==
    /\ pc = <<"open">>
    /\ SaveStep(OpenTmp(Engine, now), "dump")

\* line 101: json.dump writes some more of the members
WritePart ==
    /\ pc = <<"dump">>
    /\ \E n \in 1..Len(JsonDumps(blocked_ips)) :
          /\ n > Len(tmp_file.members)
          /\ SaveStep(DumpPart(Engine, now, n), "dump")

\* lines 100-101: json.dump returns and the with block closes the file
CloseTemp ==
    /\ pc = <<"dump">>
    /\ SaveStep(DumpTmp(Engine, now), "replace")

\* line 102: temp_file.replace(BLOCKLIST_FILE)
Replace ==
    /\ pc = <<"replace">>
    /\ SaveStep(ReplaceTmp(Engine), "stat")

\* lines 105-108
Remember ==
    /\ pc = <<"stat">>
    /\ SaveStep(RememberSave(Engine), "idle")

\* lines 110-111: the step the save stands before raises
Raise ==
    /\ pc[1] \in {"open", "dump", "replace", "stat"}
    /\ SaveStep([Engine EXCEPT !.w = "failed"], "idle")

\* the process dies: the files stay as they are
Crash ==
    /\ pc # <<"crashed">>
    /\ pc' = <<"crashed">>
    /\ ret' = FALSE
    /\ wrote' = "none"
    /\ UNCHANGED <<now, engineVars>>

\* the process is started again: IPBlocker.__init__ with the files the crash left
Restart ==
    /\ pc = <<"crashed">>
    /\ SaveStep([Constructed(file, now) EXCEPT !.tmp = tmp_file], "idle")

CrashStep ==
    UNCHANGED <<calls, blockedAt, extEdits, extOmitted, prev, flowOut, t_read, t_run,
                didBlock, nWrites>>

NextCrash ==
    \/ Tick(CONNECTION_TIMEOUT) /\ Did("tick", "") /\ CrashStep /\ UNCHANGED pc
    \/ \E ip \in IPs : BlockIpEnter(ip) /\ Did("block_ip", ip) /\ CrashStep
    \/ \E ip \in IPs : UnblockIpEnter(ip) /\ Did("unblock_ip", ip) /\ CrashStep
    \/ OpenTemp /\ Did("open", "") /\ CrashStep
    \/ WritePart /\ Did("dump", "") /\ CrashStep
    \/ CloseTemp /\ Did("close", "") /\ CrashStep
    \/ Replace /\ Did("replace", "") /\ CrashStep
    \/ Remember /\ Did("stat", "") /\ CrashStep
    \/ Raise /\ Did("raise", "") /\ CrashStep
    \/ Crash /\ Did("crash", "") /\ CrashStep
    \/ Restart /\ Did("__init__", "") /\ CrashStep

SpecCrash == InitCrash /\ [][NextCrash]_vars

\* C9: at every step, a crash or an exception inside the save included, the file
\* at the target path is absent or holds a complete JSON object, and a step that
\* changes the target path installs there the complete serialization of
\* blocked_ips; what lies unfinished lies at the temporary path.
C9_TargetWholeOrAbsent ==
    [][/\ file.kind \in {"none", "object"}
       /\ file'.kind \in {"none", "object"}
       /\ file' # file =>
             /\ file'.kind = "object"
             /\ file'.members = JsonDumps(blocked_ips)]_vars

\* C9 witness: the process died while json.dump was writing; the temporary file is
\* cut short and the target path still holds the complete earlier record.
C9_Witness ==
    /\ pc = <<"crashed">>
    /\ tmp_file.state = "partial"
    /\ tmp_file.members # <<>>
    /\ file.kind = "object"
    /\ file.members # <<>>
    /\ file.members # tmp_file.members

---------------------------------------------------------------------------
(* SpecRound: loading and saving.  A process starts on a file of either    *)
(* format, or on one that cannot be parsed; it saves, is started again,    *)
(* and reloads what another writer left.                                   *)

\* the values a file gives its addresses: two times and a string that is no time
RoundStamps == {isoformat(0), isoformat(1), JunkStamp}

\* the sequences of at most Len(IPList) elements of S
SeqsUpTo(S) == UNION {[1..n -> S] : n \in 0..Len(IPList)}

\* the texts of JSON objects with distinct keys, in any order of the members
ObjectTexts ==
    {m \in SeqsUpTo(IPs \X RoundStamps) :
        \A i, j \in 1..Len(m) : m[i][1] = m[j][1] => i = j}

\* the texts of JSON arrays of addresses, repetitions included
ArrayTexts == SeqsUpTo(IPs)

\* a file with the given text, last modified at time t
TextFile(kind, members, items, t) ==
    [exists |-> TRUE, kind |-> kind, members |-> members, items |-> items, mtime |-> t]

RoundFiles ==
    {TextFile("object", m, <<>>, 1) : m \in ObjectTexts}
        \cup {TextFile("array", <<>>, a, 1) : a \in ArrayTexts}
        \cup {CorruptFile(1), NoFile}

InitRound ==
    /\ now = 1
    /\ \E f \in RoundFiles : Started(Constructed(f, 1))
    /\ NoObservers
    /\ NoThreads

\* a call of _save_blocked_ips on the record in memory
SaveBlockedIps ==
    /\ \E fault \in SaveFaults : Commit(save_blocked_ips(Engine, now, fault))
    /\ UNCHANGED now

\* the process ends and a new one is constructed on the files it left
NewProcess ==
    /\ Commit([Constructed(file, now) EXCEPT !.tmp = tmp_file])
    /\ UNCHANGED now

\* another writer leaves a file that cannot be parsed
ExternalCorrupt == ExternalWrite(CorruptFile(now))

\* another writer leaves a file in the old format
ExternalLegacy(a) == ExternalWrite(TextFile("array", <<>>, a, now))

RoundStep ==
    /\ UNCHANGED <<calls, blockedAt, prev, flowOut>>
    /\ UNCHANGED threadVars

NextRound ==
    \/ Tick(CONNECTION_TIMEOUT) /\ Did("tick", "") /\ Foreground /\ RoundStep
    \/ SaveBlockedIps /\ Did("save", "") /\ Foreground /\ RoundStep
    \/ NewProcess /\ Did("__init__", "") /\ Background /\ RoundStep
    \/ CleanupTick /\ Did("periodic_cleanup", "") /\ Background /\ RoundStep
    \/ ExternalCorrupt /\ Did("external", "corrupt") /\ External /\ RoundStep
    \/ \E a \in ArrayTexts : ExternalLegacy(a) /\ Did("external", "legacy") /\ External /\ RoundStep

SpecRound == InitRound /\ [][NextRound]_vars

\* C11: when the record in memory is the non-empty map M that the file holds in
\* the timestamped format, a save leaves the record as it is and leaves a file in
\* the timestamped format from which a load yields M again, with the same keys
\* and the same values, whatever the values are and whether or not the write
\* succeeded.
C11_LoadSaveLoad ==
    [][(/\ Did("save", "")
        /\ file.kind = "object"
        /\ blocked_ips = JsonObject(file.members)
        /\ blocked_ips # EmptyMap)
       => (/\ blocked_ips' = blocked_ips
           /\ file'.kind = "object"
           /\ Constructed(file', now').b = blocked_ips
           /\ wrote' = "ok" => file'.members = JsonDumps(blocked_ips))]_vars

\* C11 witness: a record of two addresses, one of them with a value that is no
\* time, has been loaded and written back.
C11_Witness ==
    /\ last = <<"save", "">>
    /\ wrote = "ok"
    /\ Len(file.members) = Len(IPList)
    /\ blocked_ips = JsonObject(file.members)
    /\ \E ip \in DOMAIN blocked_ips : blocked_ips[ip] = JunkStamp

\* the record a load at time t makes of the old-format list items
Upgraded(items, t) == [ip \in Range(items) |-> isoformat(t)]

\* C12: a load of a file in the old format, at construction or by the cleanup
\* pass, yields exactly the listed addresses, each with the time of the load, and
\* does not write the file; the first save after it leaves a file from which a
\* load yields the same record, and a further save and load yield it again.
C12_LegacyUpgrade ==
    [][/\ (Did("__init__", "") /\ file.kind = "array")
          => (/\ blocked_ips' = Upgraded(file.items, now)
              /\ \A ip \in DOMAIN blocked_ips' : Parsable(blocked_ips'[ip])
              /\ file' = file
              /\ wrote' = "none")
       /\ (Did("periodic_cleanup", "") /\ file.kind = "array"
              /\ file.mtime > last_file_mtime)
          => (blocked_ips' = Upgraded(file.items, now) /\ file' = file)
       /\ (Did("save", "") /\ file.kind = "array" /\ wrote' = "ok"
              /\ DOMAIN blocked_ips = Range(file.items))
          => LET again == Constructed(file', now' + 1)
                 saved == save_blocked_ips(again, now' + 1, "none")
             IN  /\ file'.kind = "object"
                 /\ again.b = blocked_ips
                 /\ saved.f.kind = "object"
                 /\ Constructed(saved.f, now' + 1).b = blocked_ips]_vars

\* C12 witness: a process constructed after the file was written has loaded an
\* old-format list of two addresses.
C12_Witness ==
    /\ last = <<"__init__", "">>
    /\ file.kind = "array"
    /\ file.mtime < now
    /\ Cardinality(Range(file.items)) = Len(IPList)
    /\ blocked_ips = Upgraded(file.items, now)

\* C13: a load of a file that cannot be parsed leaves blocked_ips empty and the
\* file as it is, at construction and when the cleanup pass reloads a file that
\* another writer has left; the cleanup pass goes on and changes neither the
\* failure scores nor the serialization remembered from the last save.
C13_UnparsableLoadsEmpty ==
    [][/\ (Did("__init__", "") /\ file.kind \in {"corrupt", "partial"})
          => (/\ blocked_ips' = EmptyMap
              /\ file' = file
              /\ last_file_mtime' = file.mtime)
       /\ (/\ Did("periodic_cleanup", "")
           /\ file.kind \in {"corrupt", "partial"}
           /\ file.mtime > last_file_mtime)
          => (/\ blocked_ips' = EmptyMap
              /\ file' = file
              /\ last_file_mtime' = file.mtime
              /\ UNCHANGED <<to_block, last_save_state>>)]_vars

\* C13 witness: the cleanup pass has reloaded a file that another writer left
\* unparsable, and the record remembered from the last save was not empty.
C13_Witness ==
    /\ last = <<"periodic_cleanup", "">>
    /\ file.kind = "corrupt"
    /\ last_file_mtime = file.mtime
    /\ extEdits > 0
    /\ last_save_state.set
    /\ last_save_state.text # <<>>
    /\ blocked_ips = EmptyMap

---------------------------------------------------------------------------
(* SpecTrack: attempts over more than one window, with the cleanup pass.   *)
(* SpecDelete: attempts and failure scores at one time, with the cleanup   *)
(* pass and the deletion of the file by another writer.                    *)

\* the maps before the step are remembered
Remembered == prev' = [b |-> blocked_ips, tb |-> to_block, ca |-> connection_attempts]

TrackStep ==
    /\ Remembered
    /\ UNCHANGED <<calls, blockedAt, flowOut>>
    /\ UNCHANGED threadVars

NextTrack ==
    \/ Tick(CONNECTION_TIMEOUT + 2) /\ Did("tick", "") /\ Foreground /\ TrackStep
    \/ \E ip \in IPs : /\ TrackConnectionAttempt(ip)
                       /\ Did("track_connection_attempt", ip)
                       /\ Foreground
                       /\ TrackStep
    \/ CleanupTick /\ Did("periodic_cleanup", "") /\ Background /\ TrackStep

SpecTrack == Init /\ [][NextTrack]_vars

NextDelete ==
    \/ \E ip \in IPs : /\ TrackConnectionAttempt(ip)
                       /\ Did("track_connection_attempt", ip)
                       /\ Foreground
                       /\ TrackStep
    \/ \E ip \in IPs : /\ IncrementFailureCount(ip)
                       /\ Did("increment_failure_count", ip)
                       /\ Foreground
                       /\ TrackStep
    \/ \E ip \in IPs : /\ ResetFailureCount(ip)
                       /\ Did("reset_failure_count", ip)
                       /\ Foreground
                       /\ TrackStep
    \/ CleanupTick /\ Did("periodic_cleanup", "") /\ Background /\ TrackStep
    \/ ExternalDelete /\ Did("external", "") /\ External /\ TrackStep

SpecDelete == Init /\ [][NextDelete]_vars

\* the attempts stored for ip
Stored(ip) == IF ip \in DOMAIN connection_attempts THEN connection_attempts[ip] ELSE <<>>

\* after the step, ip has exactly the attempts xs (and no entry when xs is empty)
StoredAfter(ip, xs) ==
    IF xs = <<>> THEN ip \notin DOMAIN connection_attempts'
    ELSE ip \in DOMAIN connection_attempts' /\ connection_attempts'[ip] = xs

\* C14 as amended: a cleanup pass that finds the file deleted by another writer
\* leaves blocked_ips empty and does not write the file again; it leaves every
\* failure score as it was and keeps every attempt that lies inside the window.
C14_DeletionClearsBlocks ==
    [][(Did("periodic_cleanup", "") /\ ~file.exists /\ extEdits > 0)
       => (/\ blocked_ips' = EmptyMap
           /\ file' = file
           /\ to_block' = to_block
           /\ \A ip \in IPs : StoredAfter(ip, Recent(Stored(ip), now)))]_vars

\* C14 witness: the cleanup pass has found the file deleted and dropped a block,
\* and an address still has a failure score and an attempt.
C14_Witness ==
    /\ last = <<"periodic_cleanup", "">>
    /\ ~file.exists
    /\ extEdits > 0
    /\ prev.b # EmptyMap
    /\ blocked_ips = EmptyMap
    /\ \E ip \in IPs : ip \in DOMAIN to_block /\ ip \in DOMAIN connection_attempts

\* C14 as stated: after a cleanup pass that finds the file deleted, blocked_ips is
\* empty and no address keeps attempts or a failure score.
C14_AsStated ==
    [][(Did("periodic_cleanup", "") /\ ~file.exists /\ extEdits > 0)
       => (/\ blocked_ips' = EmptyMap
           /\ to_block' = EmptyMap
           /\ connection_attempts' = EmptyMap)]_vars

\* C15: reset_failure_count(ip) leaves ip without a failure score and the scores
\* of the other addresses as they were, and for an address that is not blocked
\* the increment_failure_count(ip) that follows leaves the score at one increment
\* and does not block.
C15_ResetStartsOver ==
    [][\A ip \in IPs :
          Did("reset_failure_count", ip)
          => (/\ ip \notin DOMAIN to_block'
              /\ \A other \in IPs \ {ip} :
                    /\ (other \in DOMAIN to_block') = (other \in DOMAIN to_block)
                    /\ other \in DOMAIN to_block => to_block'[other] = to_block[other]
              /\ ip \notin DOMAIN blocked_ips
                    => \A fault \in SaveFaults :
                          LET e == increment_failure_count(Engine', ip, now', fault)
                          IN  /\ ~e.r
                              /\ ip \in DOMAIN e.tb
                              /\ e.tb[ip] = 1)]_vars

\* C15 witness: a reset has just removed a score of three increments.
C15_Witness ==
    \E ip \in IPs :
        /\ last = <<"reset_failure_count", ip>>
        /\ ip \in DOMAIN prev.tb
        /\ prev.tb[ip] = 3
        /\ ip \notin DOMAIN to_block
        /\ ip \notin DOMAIN blocked_ips

\* C16: a track_connection_attempt(ip) at time t on an address that is not blocked
\* counts, besides itself, exactly the stored attempts that lie less than
\* CONNECTION_TIMEOUT before t, and when it does not block it leaves exactly those
\* and itself in the stored sequence; a cleanup pass leaves exactly the attempts
\* of the window stored.  An attempt older than the window is neither counted
\* nor kept.
C16_WindowPruning ==
    [][\A ip \in IPs :
          /\ (Did("track_connection_attempt", ip) /\ ip \notin DOMAIN blocked_ips)
             => (/\ ret' = (Len(Recent(Stored(ip), now)) + 1 >= block_threshold)
                 /\ ~ret' => StoredAfter(ip, Append(Recent(Stored(ip), now), now)))
          /\ (Did("periodic_cleanup", "") /\ ip \notin DOMAIN blocked_ips)
             => StoredAfter(ip, Recent(Stored(ip), now))]_vars

\* C16 witness: a call has found an attempt older than the window stored and has
\* left only itself.
C16_Witness ==
    \E ip \in IPs :
        /\ last = <<"track_connection_attempt", ip>>
        /\ ip \in DOMAIN prev.ca
        /\ \E i \in 1..Len(prev.ca[ip]) : now - prev.ca[ip][i] > CONNECTION_TIMEOUT
        /\ ip \in DOMAIN connection_attempts
        /\ connection_attempts[ip] = <<now>>

\* the stored attempts of ip and the one made now that satisfy InWindow
Counted(ip, InWindow(_)) == SelectSeq(Append(Stored(ip), now), InWindow)

\* C23 as amended: track_connection_attempt(ip) at time now on an address that is
\* not blocked counts exactly the timestamps t of ip, its own included, with
\* now - CONNECTION_TIMEOUT < t <= now (an attempt made exactly
\* CONNECTION_TIMEOUT earlier is no longer counted), compares their number with
\* block_threshold, and keeps exactly those when it does not block.
C23_HalfOpenWindow ==
    [][\A ip \in IPs :
          Did("track_connection_attempt", ip) /\ ip \notin DOMAIN blocked_ips
          => LET kept == Counted(ip, LAMBDA t : now - CONNECTION_TIMEOUT < t /\ t <= now)
             IN  /\ ret' = (Len(kept) >= block_threshold)
                 /\ ~ret' => connection_attempts'[ip] = kept]_vars

\* C23 witness: a call that did not block has found an attempt made exactly
\* CONNECTION_TIMEOUT earlier and has not kept it.
C23_Witness ==
    \E ip \in IPs :
        /\ last = <<"track_connection_attempt", ip>>
        /\ ~ret
        /\ ip \in DOMAIN prev.ca
        /\ \E i \in 1..Len(prev.ca[ip]) : prev.ca[ip][i] = now - CONNECTION_TIMEOUT
        /\ ip \in DOMAIN connection_attempts
        /\ \A i \in 1..Len(connection_attempts[ip]) :
              connection_attempts[ip][i] # now - CONNECTION_TIMEOUT

\* C23 as stated: the timestamps kept and counted are those of the closed interval
\* now - CONNECTION_TIMEOUT <= t <= now.
C23_AsStated ==
    [][\A ip \in IPs :
          Did("track_connection_attempt", ip) /\ ip \notin DOMAIN blocked_ips
          => LET kept == Counted(ip, LAMBDA t : now - CONNECTION_TIMEOUT <= t /\ t <= now)
             IN  /\ ret' = (Len(kept) >= block_threshold)
                 /\ ~ret' => connection_attempts'[ip] = kept]_vars

\* C24: between operations every address in connection_attempts has at least one
\* timestamp.
C24_NoEmptyAttempts ==
    \A ip \in DOMAIN connection_attempts : connection_attempts[ip] # <<>>

\* C24 witness: a cleanup pass has removed the entry of an address whose attempts
\* had all left the window, and has kept the entry of another address.
C24_Witness ==
    \E ip \in IPs, other \in IPs :
        /\ last = <<"periodic_cleanup", "">>
        /\ ip \in DOMAIN prev.ca
        /\ ip \notin DOMAIN connection_attempts
        /\ ip \notin DOMAIN blocked_ips
        /\ other \in DOMAIN connection_attempts

\* ip is blocked with a time stamp more than BLOCK_RESET_INTERVAL old
Overdue(ip) ==
    /\ ip \in DOMAIN blocked_ips
    /\ blocked_ips[ip].text = "iso"
    /\ now - blocked_ips[ip].at > BLOCK_RESET_INTERVAL

\* C28: track_connection_attempt(ip) on an address that is in blocked_ips returns
\* true and writes nothing: blocked_ips with the time stamp of ip,
\* connection_attempts, to_block and the file are as before the call, whether or
\* not the block is old enough to expire.
C28_TrackBlockedReadOnly ==
    [][\A ip \in IPs :
          Did("track_connection_attempt", ip) /\ ip \in DOMAIN blocked_ips
          => /\ ret' = TRUE
             /\ wrote' = "none"
             /\ UNCHANGED <<blocked_ips, connection_attempts, to_block, file>>]_vars

\* C28 witness: the call has just returned true for an address whose block is
\* older than BLOCK_RESET_INTERVAL and still in place, with no attempt recorded
C28_Witness ==
    /\ last = <<"track_connection_attempt", IPList[1]>>
    /\ ret = TRUE
    /\ wrote = "none"
    /\ Overdue(IPList[1])
    /\ IPList[1] \notin DOMAIN connection_attempts

\* C31: track_connection_attempt(ip) returns true with the attempt left
\* unrecorded only when is_ip_blocked(ip), called at the same instant instead,
\* would return true; a call on an address whose block has expired and is still
\* in blocked_ips records the attempt.
C31_TrackAgreesWithCheck ==
    [][\A ip \in IPs :
          Did("track_connection_attempt", ip)
          => /\ ret' /\ connection_attempts' = connection_attempts
                   /\ blocked_ips' = blocked_ips
                => is_ip_blocked(Engine, ip, now, "none").r
             /\ Overdue(ip)
                => /\ ip \in DOMAIN connection_attempts'
                   /\ now \in Range(connection_attempts'[ip])]_vars

---------------------------------------------------------------------------
(* SpecPaced: connection attempts and administrative blocks over the whole *)
(* run, with a cleanup thread that keeps waking up (while True: sleep): it *)
(* makes at least one pass between two readings of the clock.  Nobody      *)
(* calls is_ip_blocked and no other writer touches the file.               *)

\* one pass of the cleanup thread
CleanupPass == CleanupTick /\ Did("periodic_cleanup", "") /\ Background /\ TrackStep

NextPaced ==
    \/ /\ last = <<"periodic_cleanup", "">>
       /\ Tick(MaxTime) /\ Did("tick", "") /\ Foreground /\ TrackStep
    \/ \E ip \in IPs : /\ TrackConnectionAttempt(ip)
                       /\ Did("track_connection_attempt", ip)
                       /\ Foreground
                       /\ TrackStep
    \/ \E ip \in IPs : BlockIp(ip) /\ Did("block_ip", ip) /\ Foreground /\ TrackStep
    \/ CleanupPass

SpecPaced == Init /\ [][NextPaced]_vars

\* C25: a cleanup pass removes every address whose block is more than
\* BLOCK_RESET_INTERVAL old from blocked_ips and leaves it without attempts and
\* without failure score, and unless the write fails the file no longer holds the
\* address; while the file exists the pass leaves a block that is not yet that old
\* in place; and with a pass between any two readings of the clock no block is
\* ever found more than one reading older than BLOCK_RESET_INTERVAL, although
\* nobody calls is_ip_blocked.
C25_CleanupExpiresBlocks ==
    /\ [][Did("periodic_cleanup", "")
            => \A ip \in DOMAIN blocked_ips :
                  IF Overdue(ip)
                  THEN /\ ip \notin DOMAIN blocked_ips'
                       /\ ip \notin DOMAIN to_block'
                       /\ ip \notin DOMAIN connection_attempts'
                       /\ wrote' # "failed" => ip \notin DOMAIN FileRecord'
                       /\ ip \in DOMAIN FileRecord => wrote' \in {"ok", "failed"}
                  ELSE blocked_ips[ip].text = "iso" /\ file.exists
                          => ip \in DOMAIN blocked_ips' /\ blocked_ips'[ip] = blocked_ips[ip]]_vars
    /\ [](\A ip \in DOMAIN blocked_ips :
              blocked_ips[ip].text = "iso"
                 => now - blocked_ips[ip].at <= BLOCK_RESET_INTERVAL + 1)

\* C25 witness: a cleanup pass has removed the block of IPList[2], which was more
\* than BLOCK_RESET_INTERVAL old, and has written the file without it, the other
\* address being blocked still.
C25_Witness ==
    /\ last = <<"periodic_cleanup", "">>
    /\ wrote = "ok"
    /\ IPList[2] \in DOMAIN prev.b
    /\ now - prev.b[IPList[2]].at > BLOCK_RESET_INTERVAL
    /\ IPList[2] \notin DOMAIN blocked_ips
    /\ IPList[2] \notin DOMAIN FileRecord
    /\ IPList[1] \in DOMAIN blocked_ips

\* C30: a cleanup pass leaves no address in connection_attempts whose attempts
\* are all CONNECTION_TIMEOUT old or older, and keeps every younger attempt of
\* the addresses it leaves; with a pass between any two readings of the clock
\* no stored attempt is ever found older than CONNECTION_TIMEOUT, so an address
\* that stops connecting does not stay in connection_attempts.
C30_IdleAddressesLeave ==
    /\ [][Did("periodic_cleanup", "")
            => /\ \A ip \in DOMAIN connection_attempts :
                     (\A i \in DOMAIN connection_attempts[ip] :
                          now - connection_attempts[ip][i] >= CONNECTION_TIMEOUT)
                        => ip \notin DOMAIN connection_attempts'
               /\ \A ip \in DOMAIN connection_attempts' :
                     /\ ip \in DOMAIN connection_attempts
                     /\ connection_attempts'[ip]
                           = FilterAfter(connection_attempts[ip], now - CONNECTION_TIMEOUT)]_vars
    /\ [](\A ip \in DOMAIN connection_attempts :
              \A i \in DOMAIN connection_attempts[ip] :
                  now - connection_attempts[ip][i] <= CONNECTION_TIMEOUT)

\* C30 witness: a cleanup pass has just dropped an address whose last attempt was
\* CONNECTION_TIMEOUT old, with its block nowhere near expiry
C30_Witness ==
    /\ last = <<"periodic_cleanup", "">>
    /\ IPList[1] \in DOMAIN prev.ca
    /\ now - prev.ca[IPList[1]][Len(prev.ca[IPList[1]])] = CONNECTION_TIMEOUT
    /\ IPList[1] \notin DOMAIN connection_attempts
    /\ IPList[1] \notin DOMAIN blocked_ips
    /\ IPList[2] \in DOMAIN connection_attempts

---------------------------------------------------------------------------
(* The hooks of MitmProxyAddon (Scripts/script.py) and the resolution of   *)
(* the address of a flow (Scripts/utils.py).                               *)

\* config.py
HTTP_OK == 200
HTTP_MULTIPLE_CHOICES == 300
HTTP_UNAUTHORIZED == 401
HTTP_FORBIDDEN == 403
HTTP_PROXY_AUTH_REQUIRED == 407

\* utils.normalize_ip on the address strings of the model: an empty string gives
\* "unknown", brackets are removed (none of the strings holds a colon)
normalize_ip(ip) ==
    CASE ip = "" -> "unknown"
      [] ip = "[10.0.0.2]" -> "10.0.0.2"
      [] OTHER -> ip

\* forwarded_for.split(",")[0].strip() on the header values of the model
FirstForwarded(v) ==
    CASE v = " 10.0.0.1 , 10.0.0.2" -> "10.0.0.1"
      [] v = " , 10.0.0.2" -> ""
      [] OTHER -> v

\* utils.get_client_ip, for a flow that has a request
get_client_ip(flow) ==
    IF ~flow.client_conn THEN "unknown"
    ELSE IF flow.real_ip # "" THEN normalize_ip(flow.real_ip)
    ELSE IF flow.forwarded # "" /\ FirstForwarded(flow.forwarded) # ""
         THEN normalize_ip(FirstForwarded(flow.forwarded))
    ELSE IF flow.peername # "" THEN normalize_ip(flow.peername)
    ELSE "unknown"

\* a flow as the hooks read it; status 0 stands for a flow without response
Flow(client_conn, peername, real_ip, forwarded) ==
    [client_conn |-> client_conn, peername |-> peername, real_ip |-> real_ip,
     forwarded |-> forwarded, status |-> 0]

\* the flows the hooks are called with: the peer is IPList[1] or has no name, the
\* headers name IPList[1], IPList[2] or nothing
Flows ==
    { Flow(TRUE, IPList[1], "", ""),
      Flow(TRUE, IPList[1], "[10.0.0.2]", ""),
      Flow(TRUE, IPList[1], "", " 10.0.0.1 , 10.0.0.2"),
      Flow(TRUE, IPList[1], "", " , 10.0.0.2"),
      Flow(TRUE, "", "[10.0.0.2]", "") }

Statuses ==
    {0, HTTP_OK, HTTP_MULTIPLE_CHOICES, HTTP_UNAUTHORIZED, HTTP_FORBIDDEN,
     HTTP_PROXY_AUTH_REQUIRED}

\* the statement of a hook that raises, if any does
HookFaults == {"none", "resolve", "kill", "extract", "har"}

\* a hook has been entered with the engine as e
Entered(e) == [e |-> e, killed |-> FALSE, tokens |-> FALSE, har |-> FALSE, exc |-> "none"]

\* a statement of the try block raises
Raised(h) == [h EXCEPT !.exc = "raised"]

\* flow.kill()
Kill(h, hf) == IF hf = "kill" THEN Raised(h) ELSE [h EXCEPT !.killed = TRUE]

\* as Guarded, with no handler around the body
Unguarded(h) == h

\* try: ... except Exception as e: debug_log(...)
Guarded(h) == IF h.exc = "raised" THEN [h EXCEPT !.exc = "caught"] ELSE h

\* the address tcp_start resolves, "" when the flow has no peer name
PeerAddress(flow) ==
    IF flow.client_conn /\ flow.peername # "" THEN normalize_ip(flow.peername) ELSE ""

\* MitmProxyAddon.tcp_start
tcp_start(e, flow, t, fault, hf) ==
    Guarded(
        IF hf = "resolve" THEN Raised(Entered(e))
        ELSE IF PeerAddress(flow) = "" THEN Entered(e)
        ELSE LET client_ip == normalize_ip(flow.peername)
                 checked == is_ip_blocked(e, client_ip, t, fault)
                 tracked == track_connection_attempt(checked, client_ip, t, t, fault)
             IN  IF checked.r THEN Kill(Entered(checked), hf)
                 ELSE IF tracked.r THEN Kill(Entered(tracked), hf)
                 ELSE Entered(tracked))

\* client_ip = get_client_ip(flow); if is_ip_blocked(client_ip): flow.kill(); return
KillIfBlocked(e, flow, t, fault, hf) ==
    IF hf = "resolve" THEN Raised(Entered(e))
    ELSE LET checked == is_ip_blocked(e, get_client_ip(flow), t, fault)
         IN  IF checked.r THEN Kill(Entered(checked), hf) ELSE Entered(checked)

\* MitmProxyAddon.http_connect
http_connect(e, flow, t, fault, hf) == Guarded(KillIfBlocked(e, flow, t, fault, hf))

\* MitmProxyAddon.requestheaders
requestheaders(e, flow, t, fault, hf) == Guarded(KillIfBlocked(e, flow, t, fault, hf))

\* as request, extracting the tokens before it looks whether the address is blocked
request_extracts_first(e, flow, t, fault, hf) ==
    LET h == KillIfBlocked(e, flow, t, fault, hf)
    IN  Guarded(IF h.exc = "none" THEN [h EXCEPT !.tokens = TRUE] ELSE h)

\* MitmProxyAddon.request
request(e, flow, t, fault, hf) ==
    LET h == KillIfBlocked(e, flow, t, fault, hf)
    IN  Guarded(IF h.killed \/ h.exc # "none" THEN h
                ELSE IF hf = "extract" THEN Raised(h)
                ELSE [h EXCEPT !.tokens = TRUE])

\* as Scored, taking a redirection for a success
ScoredBelow400(e, client_ip, status, t, fault) ==
    IF status = HTTP_PROXY_AUTH_REQUIRED \/ status \in {HTTP_UNAUTHORIZED, HTTP_FORBIDDEN}
    THEN increment_failure_count(e, client_ip, t, fault)
    ELSE IF HTTP_OK <= status /\ status < HTTP_UNAUTHORIZED - 1
         THEN [reset_failure_count(e, client_ip) EXCEPT !.r = FALSE]
         ELSE [e EXCEPT !.r = FALSE]

\* lines 176-201 of response: the failure score follows the status code
Scored(e, client_ip, status, t, fault) ==
    IF status = HTTP_PROXY_AUTH_REQUIRED \/ status \in {HTTP_UNAUTHORIZED, HTTP_FORBIDDEN}
    THEN increment_failure_count(e, client_ip, t, fault)
    ELSE IF HTTP_OK <= status /\ status < HTTP_MULTIPLE_CHOICES
         THEN [reset_failure_count(e, client_ip) EXCEPT !.r = FALSE]
         ELSE [e EXCEPT !.r = FALSE]

\* MitmProxyAddon.response
response(e, flow, t, fault, hf) ==
    Guarded(
        IF hf = "resolve" THEN Raised(Entered(e))
        ELSE LET client_ip == get_client_ip(flow)
                 checked == is_ip_blocked(e, client_ip, t, fault)
                 scored == Scored(checked, client_ip, flow.status, t, fault)
                 again == is_ip_blocked(scored, client_ip, t, fault)
             IN  IF checked.r \/ flow.status = 0 THEN Entered(checked)
                 ELSE IF scored.r THEN Entered(scored)
                 ELSE IF again.r THEN Entered(again)
                 ELSE IF hf = "har" THEN Raised(Entered(again))
                 ELSE [Entered(again) EXCEPT !.har = TRUE])

\* MitmProxyAddon.error
error(e, flow, t, fault, hf) ==
    Guarded(IF hf = "resolve" THEN Raised(Entered(e))
            ELSE Entered(is_ip_blocked(e, get_client_ip(flow), t, fault)))

\* the engine and the flow after a hook
HookDone(h) ==
    /\ Commit(h.e)
    /\ flowOut' = [killed |-> h.killed, tokens |-> h.tokens, har |-> h.har, exc |-> h.exc]
    /\ UNCHANGED now

---------------------------------------------------------------------------
(* SpecHooks: the proxy calls the hooks and no statement of a hook raises;  *)
(* the clock and the cleanup thread move; no other writer touches the file.*)

HooksStep ==
    /\ UNCHANGED <<prev, calls, blockedAt, extEdits, extOmitted>>
    /\ UNCHANGED threadVars

\* the proxy calls one hook with one flow; a response has one of the Statuses
Hook(faults) ==
    \E flow \in Flows, fault \in SaveFaults, hf \in faults :
        \/ /\ HookDone(tcp_start(Engine, flow, now, fault, hf))
           /\ Did("tcp_start", PeerAddress(flow))
        \/ /\ HookDone(http_connect(Engine, flow, now, fault, hf))
           /\ Did("http_connect", get_client_ip(flow))
        \/ /\ HookDone(requestheaders(Engine, flow, now, fault, hf))
           /\ Did("requestheaders", get_client_ip(flow))
        \/ /\ HookDone(request(Engine, flow, now, fault, hf))
           /\ Did("request", get_client_ip(flow))
        \/ /\ \E status \in Statuses :
                  HookDone(response(Engine, [flow EXCEPT !.status = status], now, fault, hf))
           /\ Did("response", get_client_ip(flow))
        \/ /\ HookDone(error(Engine, flow, now, fault, hf))
           /\ Did("error", get_client_ip(flow))

NextHooks ==
    \/ /\ Tick(MaxTime) /\ Did("tick", "")
       /\ flowOut' = NoFlowOut
       /\ HooksStep
    \/ /\ CleanupTick /\ Did("periodic_cleanup", "")
       /\ flowOut' = NoFlowOut
       /\ HooksStep
    \/ Hook({"none"}) /\ HooksStep

SpecHooks == Init /\ [][NextHooks]_vars

\* ip is in blocked_ips with a time stamp that parses and is at most
\* BLOCK_RESET_INTERVAL old
Held(ip) ==
    /\ ip \in DOMAIN blocked_ips
    /\ blocked_ips[ip].text = "iso"
    /\ now - blocked_ips[ip].at <= BLOCK_RESET_INTERVAL

\* the step is a call of one of the hooks in ops for a flow whose address is ip
Called(ops, ip) == last'[1] \in ops /\ last'[2] = ip

\* the attempts of ip that count at the time of a call made now, that call included
CountedNow(ip) == Append(Recent(Stored(ip), now), now)

\* C17: while the address resolved for a flow is blocked and the block has not
\* expired, tcp_start, http_connect, requestheaders and request kill the flow,
\* request extracts no tokens, and response leaves every failure score as it was,
\* adds no HAR entry; when the address is not blocked, tcp_start counts exactly
\* one more attempt for it, and kills the flow exactly when the attempts counted
\* reach block_threshold, the address being blocked from that call on.
C17_BlockedFlowsKilled ==
    [][\A ip \in IPs :
        /\ Called({"tcp_start", "http_connect", "requestheaders", "request"}, ip) /\ Held(ip)
              => flowOut'.killed /\ ~flowOut'.tokens
        /\ Called({"response"}, ip) /\ Held(ip)
              => to_block' = to_block /\ ~flowOut'.har
        /\ Called({"tcp_start"}, ip) /\ ~Held(ip)
              => /\ flowOut'.killed <=> Len(CountedNow(ip)) >= block_threshold
                 /\ ~flowOut'.killed => StoredAfter(ip, CountedNow(ip))
                 /\ flowOut'.killed =>
                       ip \in DOMAIN blocked_ips' /\ blocked_ips'[ip] = isoformat(now)]_vars

\* C17 witness: request has killed the flow of IPList[2], an address that only the
\* headers name and that failed responses have blocked, and has extracted nothing
C17_Witness ==
    /\ last = <<"request", IPList[2]>>
    /\ Held(IPList[2])
    /\ flowOut.killed /\ ~flowOut.tokens

---------------------------------------------------------------------------
(* SpecFaults: as SpecHooks, and a statement of a hook may raise.          *)

NextFaults ==
    \/ /\ Tick(CONNECTION_TIMEOUT) /\ Did("tick", "")
       /\ flowOut' = NoFlowOut
       /\ HooksStep
    \/ Hook(HookFaults) /\ HooksStep

SpecFaults == Init /\ [][NextFaults]_vars

\* C18: an exception raised inside a hook does not leave the hook, and a hook in
\* which one was raised has not killed its flow.
C18_HookFailsOpen ==
    /\ flowOut.exc # "raised"
    /\ flowOut.exc = "caught" => ~flowOut.killed

\* C18 witness: tcp_start has caught an exception while handling the flow of a
\* blocked address, and the flow is not killed
C18_Witness ==
    /\ last = <<"tcp_start", IPList[1]>>
    /\ Held(IPList[1])
    /\ flowOut.exc = "caught" /\ ~flowOut.killed

---------------------------------------------------------------------------
(* SpecStatus: connections and responses within one attempt window.  The   *)
(* proxy calls tcp_start and response; a response carries any of the       *)
(* StatusCodes, and the step records it in `last`.                         *)

\* the status codes of the responses: those of Statuses, the two ends of the range
\* of the successes from outside and from inside, and a server error
StatusCodes ==
    Statuses \cup {HTTP_OK - 1, HTTP_MULTIPLE_CHOICES - 1, HTTP_FORBIDDEN + 97}

NextStatus ==
    \/ /\ Tick(CONNECTION_TIMEOUT) /\ Did("tick", "")
       /\ flowOut' = NoFlowOut
       /\ HooksStep
    \/ \E flow \in Flows, fault \in SaveFaults :
          /\ HookDone(tcp_start(Engine, flow, now, fault, "none"))
          /\ Did("tcp_start", PeerAddress(flow))
          /\ HooksStep
    \/ \E flow \in Flows, fault \in SaveFaults, status \in StatusCodes :
          /\ HookDone(response(Engine, [flow EXCEPT !.status = status], now, fault, "none"))
          /\ last' = <<"response", get_client_ip(flow), status>>
          /\ HooksStep

SpecStatus == Init /\ [][NextStatus]_vars

\* C29: a response for a flow whose address ip is not in blocked_ips: with status
\* 401, 403 or 407 the failure score of ip grows by one increment, or ip is blocked
\* when the increment reaches the threshold; with a status from 200 to 299 ip has
\* no failure score afterwards; with any other status (or without a response) the
\* failure score of ip is as before; and unless ip is blocked by the step, its
\* attempt time stamps are as before.
C29_StatusFeedsScore ==
    [][\A ip \in IPs, status \in StatusCodes :
          last' = <<"response", ip, status>> /\ ip \notin DOMAIN blocked_ips
          => /\ status \in {401, 403, 407}
                => IF Score(Engine, ip) + 1 >= 2 * block_threshold
                   THEN /\ ip \in DOMAIN blocked_ips'
                        /\ ip \notin DOMAIN to_block'
                   ELSE /\ ip \notin DOMAIN blocked_ips'
                        /\ ip \in DOMAIN to_block'
                        /\ to_block'[ip] = Score(Engine, ip) + 1
             /\ status \in 200..299 => ip \notin DOMAIN to_block'
             /\ status \notin {401, 403, 407} \cup (200..299)
                => /\ (ip \in DOMAIN to_block') = (ip \in DOMAIN to_block)
                   /\ ip \in DOMAIN to_block => to_block'[ip] = to_block[ip]
             /\ status \notin {401, 403, 407} => ip \notin DOMAIN blocked_ips'
             /\ ip \notin DOMAIN blocked_ips'
                => /\ (ip \in DOMAIN connection_attempts')
                         = (ip \in DOMAIN connection_attempts)
                   /\ ip \in DOMAIN connection_attempts
                         => connection_attempts'[ip] = connection_attempts[ip]]_vars

\* C29 witness: a 403 response has just taken the failure score of an address
\* that has an attempt on record from one increment to two, without blocking it
C29_Witness ==
    /\ last = <<"response", IPList[1], HTTP_FORBIDDEN>>
    /\ IPList[1] \notin DOMAIN blocked_ips
    /\ IPList[1] \in DOMAIN to_block
    /\ to_block[IPList[1]] = 2
    /\ IPList[1] \in DOMAIN connection_attempts

---------------------------------------------------------------------------
(* SpecClient: the hooks of one proxy within one attempt window, each step *)
(* recording in `last` the hook, the address the hook resolved for the     *)
(* flow and the address of the peer of the flow's connection.              *)

\* the hook called name, applied to flow
HookOf(name, e, flow, t, fault) ==
    CASE name = "tcp_start" -> tcp_start(e, flow, t, fault, "none")
      [] name = "http_connect" -> http_connect(e, flow, t, fault, "none")
      [] name = "requestheaders" -> requestheaders(e, flow, t, fault, "none")
      [] name = "request" -> request(e, flow, t, fault, "none")
      [] name = "response" -> response(e, flow, t, fault, "none")
      [] name = "error" -> error(e, flow, t, fault, "none")

NextClient ==
    \/ /\ Tick(CONNECTION_TIMEOUT) /\ Did("tick", "")
       /\ flowOut' = NoFlowOut
       /\ HooksStep
    \/ \E flow \in Flows, fault \in SaveFaults :
          /\ HookDone(tcp_start(Engine, flow, now, fault, "none"))
          /\ last' = <<"tcp_start", PeerAddress(flow), PeerAddress(flow)>>
          /\ HooksStep
    \/ \E name \in {"http_connect", "requestheaders", "request", "response", "error"},
          flow \in Flows, status \in Statuses, fault \in SaveFaults :
          /\ HookDone(HookOf(name, Engine, [flow EXCEPT !.status = status], now, fault))
          /\ last' = <<name, get_client_ip(flow), PeerAddress(flow)>>
          /\ HooksStep

SpecClient == Init /\ [][NextClient]_vars

\* C32: every hook resolves the address of the peer of the connection, whatever
\* the headers of the request say, and while that address is blocked and the
\* block has not expired, http_connect, requestheaders and request kill the flow
\* and response neither scores nor captures it.
C32_BlockFollowsClient ==
    [][Len(last') = 3 /\ last'[3] \in IPs
          => /\ last'[2] = last'[3]
             /\ Held(last'[3])
                => /\ last'[1] \in {"tcp_start", "http_connect", "requestheaders", "request"}
                      => flowOut'.killed /\ ~flowOut'.tokens
                   /\ last'[1] = "response"
                      => ~flowOut'.har /\ to_block' = to_block]_vars

---------------------------------------------------------------------------
(* SpecRace: a foreground thread calls the blocking methods for Target,    *)
(* each body under self.lock, while the cleanup thread runs its loop       *)
(* statement by statement; _check_external_changes takes no lock.  No      *)
(* other writer touches the file.                                          *)
(* pc.fg is the call the foreground thread is inside, <<>> outside a call; *)
(* pc.bg the position of the cleanup thread; pc.lock the holder of the     *)
(* lock.                                                                   *)

InitRace ==
    /\ now = 1
    /\ \E f \in InitFiles : Started(Constructed(f, 1))
    /\ NoObservers
    /\ pc = [fg |-> <<>>, bg |-> "sleep", lock |-> "none"]
    /\ t_read = <<>>
    /\ t_run = <<>>
    /\ didBlock = <<>>
    /\ nWrites = 0

RaceStep ==
    /\ UNCHANGED <<calls, blockedAt, extEdits, extOmitted, prev, flowOut>>
    /\ UNCHANGED <<t_read, t_run, didBlock, nWrites>>

\* with self.lock: entered by a call of op for ip
FgEnter(op, ip) ==
    /\ pc.fg = <<>> /\ pc.lock = "none"
    /\ pc' = [pc EXCEPT !.fg = <<op, ip>>, !.lock = "fg"]
    /\ wrote' = "none" /\ ret' = FALSE
    /\ UNCHANGED <<now, engineVars>>

\* the body of the call under the lock, which is released when the call returns
FgRun ==
    /\ pc.fg # <<>> /\ pc.lock = "fg"
    /\ \E fault \in SaveFaults :
          LET ip == pc.fg[2]
          IN  CASE pc.fg[1] = "block_ip" -> Commit(block_ip(Engine, ip, now, fault))
                [] pc.fg[1] = "track_connection_attempt" ->
                      Commit(track_connection_attempt(Engine, ip, now, now, fault))
                [] pc.fg[1] = "increment_failure_count" ->
                      Commit(increment_failure_count(Engine, ip, now, fault))
    /\ pc' = [pc EXCEPT !.fg = <<>>, !.lock = "none"]
    /\ UNCHANGED now

\* _check_external_changes, line 115: if not BLOCKLIST_FILE.exists()
BgExists ==
    /\ pc.bg = "sleep"
    /\ pc' = [pc EXCEPT !.bg = IF file.exists THEN "present" ELSE "missing"]
    /\ wrote' = "none" /\ ret' = FALSE
    /\ UNCHANGED <<now, engineVars>>

\* _check_external_changes, lines 117-121, after the file was found missing
BgClear ==
    /\ pc.bg = "missing"
    /\ Commit(IF blocked_ips # EmptyMap
              THEN [Engine EXCEPT !.b = EmptyMap, !.lfm = 0, !.w = "none", !.r = FALSE]
              ELSE [Engine EXCEPT !.w = "none", !.r = FALSE])
    /\ pc' = [pc EXCEPT !.bg = "expired"]
    /\ UNCHANGED now

\* _check_external_changes, lines 123-127, after the file was found present
BgReload ==
    /\ pc.bg = "present"
    /\ Commit([check_external_changes(Engine, now) EXCEPT !.w = "none", !.r = FALSE])
    /\ pc' = [pc EXCEPT !.bg = "expired"]
    /\ UNCHANGED now

\* _cleanup_expired_blocks, then _cleanup_old_connections: each takes the lock
BgLocked ==
    /\ pc.lock = "none"
    /\ \/ /\ pc.bg = "expired"
          /\ \E fault \in SaveFaults : Commit(cleanup_expired_blocks(Engine, now, now, fault))
          /\ pc' = [pc EXCEPT !.bg = "old"]
       \/ /\ pc.bg = "old"
          /\ Commit(cleanup_old_connections(Engine, now))
          /\ pc' = [pc EXCEPT !.bg = "sleep"]
    /\ UNCHANGED now

NextRace ==
    \/ Tick(MaxTime) /\ Did("tick", "") /\ UNCHANGED pc /\ RaceStep
    \/ \E op \in {"block_ip", "track_connection_attempt", "increment_failure_count"},
          ip \in {Target} : FgEnter(op, ip) /\ Did("enter", ip) /\ RaceStep
    \/ FgRun /\ Did(pc.fg[1], pc.fg[2]) /\ RaceStep
    \/ BgExists /\ Did("exists", "") /\ RaceStep
    \/ BgClear /\ Did("clear", "") /\ RaceStep
    \/ BgReload /\ Did("reload", "") /\ RaceStep
    \/ BgLocked /\ Did("cleanup", "") /\ RaceStep

SpecRace == InitRace /\ [][NextRace]_vars

\* C19: the steps of the external-change check that read or write blocked_ips and
\* _last_file_mtime (the clearing after a missing file, the comparison of the
\* modification times and the reload) are never taken while another thread is
\* inside a critical section of the engine.
C19_CheckOutsideCriticalSections ==
    [][last'[1] \in {"clear", "reload"} => pc.lock # "fg"]_vars

\* no call is running, ip is blocked in memory and the file holds its entry
Persisted(ip) ==
    /\ pc.fg = <<>>
    /\ ip \in DOMAIN blocked_ips
    /\ ip \in DOMAIN FileRecord

\* C20: an address that a blocking call has blocked and persisted stays in
\* blocked_ips as long as its block has not expired (no unblock_ip and no other
\* writer of the file exist in SpecRace), whatever the cleanup thread does
\* concurrently.
C20_PersistedBlockStays ==
    [][\A ip \in IPs :
          Persisted(ip) /\ Parsable(blocked_ips[ip]) /\ ~Expired(blocked_ips[ip], now')
              => ip \in DOMAIN blocked_ips']_vars

---------------------------------------------------------------------------
(* SpecExpiry: the two paths that lift an expired block.  A foreground     *)
(* thread calls is_ip_blocked, statement by statement under self.lock,     *)
(* while the cleanup thread runs its loop; _check_external_changes takes   *)
(* no lock and _cleanup_expired_blocks takes it.  No other writer touches  *)
(* the file.                                                               *)
(* pc.fg is <<"is_ip_blocked", ip, at, current_state>>: the statement the  *)
(* call is at and the local variable of _save_blocked_ips.                 *)

\* the process starts on a file that holds both addresses, blocked at time 1, or
\* on one of InitFiles
InitExpiry ==
    /\ now = 1
    /\ \E f \in InitFiles \cup {ObjectFile([ip \in IPs |-> isoformat(1)], 1)} :
          Started(Constructed(f, 1))
    /\ NoObservers
    /\ pc = [fg |-> <<>>, bg |-> "sleep", lock |-> "none"]
    /\ t_read = <<>>
    /\ t_run = <<>>
    /\ didBlock = <<>>
    /\ nWrites = 0

\* one statement of is_ip_blocked(ip) at position at: the fields and files after it,
\* the position it leaves the call at ("return" and "raise" end the call) and
\* current_state of _save_blocked_ips
is_ip_blocked_step(e, ip, at, cs, t, fault) ==
    CASE at = "in" ->        \* line 255: if ip in self.blocked_ips
            IF ip \in DOMAIN e.b THEN [e |-> e, at |-> "read", cs |-> cs]
            ELSE [e |-> [e EXCEPT !.r = FALSE], at |-> "return", cs |-> cs]
      [] at = "read" ->      \* lines 258-259: self.blocked_ips[ip], parsed and compared
            IF ip \notin DOMAIN e.b THEN [e |-> e, at |-> "raise", cs |-> cs]
            ELSE IF ~Parsable(e.b[ip]) THEN [e |-> e, at |-> "delbad", cs |-> cs]
            ELSE IF Expired(e.b[ip], t) THEN [e |-> e, at |-> "del", cs |-> cs]
            ELSE [e |-> [e EXCEPT !.r = TRUE], at |-> "return", cs |-> cs]
      [] at = "del" ->       \* lines 261-263: del self.blocked_ips[ip] and the two pops
            IF ip \notin DOMAIN e.b THEN [e |-> e, at |-> "raise", cs |-> cs]
            ELSE [e |-> Forget(e, {ip}), at |-> "save", cs |-> cs]
      [] at = "delbad" ->    \* lines 270-271: del self.blocked_ips[ip]; return False
            IF ip \notin DOMAIN e.b THEN [e |-> e, at |-> "raise", cs |-> cs]
            ELSE [e |-> [e EXCEPT !.b = DictPop(e.b, ip), !.r = FALSE],
                  at |-> "return", cs |-> cs]
      [] at = "save" ->      \* lines 93-102 of _save_blocked_ips, up to the rename
            IF SameAsLastSave(e)
            THEN [e |-> [e EXCEPT !.w = "skipped", !.r = FALSE], at |-> "return", cs |-> cs]
            ELSE IF fault = "open"
            THEN [e |-> [e EXCEPT !.w = "failed", !.r = FALSE], at |-> "return", cs |-> cs]
            ELSE [e |-> ReplaceTmp(DumpTmp(OpenTmp(e, t), t)), at |-> "note",
                  cs |-> JsonDumps(e.b)]
      [] at = "note" ->      \* lines 105-108, then lines 265-266: return False
            [e |-> [e EXCEPT !.lfm = IF e.f.exists THEN e.f.mtime ELSE e.lfm,
                             !.lss = [set |-> TRUE, text |-> cs],
                             !.w = "ok", !.r = FALSE],
             at |-> "return", cs |-> cs]

\* with self.lock, line 254: entered by a call of is_ip_blocked(ip)
FgCheckEnter(ip) ==
    /\ pc.fg = <<>> /\ pc.lock = "none"
    /\ pc' = [pc EXCEPT !.fg = <<"is_ip_blocked", ip, "in", <<>>>>, !.lock = "fg"]
    /\ wrote' = "none" /\ ret' = FALSE
    /\ last' = <<"enter", ip>>
    /\ UNCHANGED <<now, engineVars>>

\* the next statement of the call; the lock is released when the call ends
FgCheckStep ==
    /\ pc.fg # <<>> /\ pc.lock = "fg"
    /\ \E fault \in SaveFaults :
          LET s == is_ip_blocked_step(Engine, pc.fg[2], pc.fg[3], pc.fg[4], now, fault)
          IN  /\ Commit(s.e)
              /\ pc' = IF s.at \in {"return", "raise"}
                       THEN [pc EXCEPT !.fg = <<>>, !.lock = "none"]
                       ELSE [pc EXCEPT !.fg = <<"is_ip_blocked", pc.fg[2], s.at, s.cs>>]
              /\ last' = CASE s.at = "return" -> <<"is_ip_blocked", pc.fg[2]>>
                           [] s.at = "raise" -> <<"raised", pc.fg[2]>>
                           [] OTHER -> <<"statement", pc.fg[2]>>
    /\ UNCHANGED now

\* _check_external_changes, lines 124-125: current_mtime > self._last_file_mtime
BgCompare ==
    /\ pc.bg = "present"
    /\ pc' = [pc EXCEPT !.bg = IF file.exists /\ file.mtime > last_file_mtime
                               THEN "load" ELSE "expired"]
    /\ wrote' = "none" /\ ret' = FALSE
    /\ UNCHANGED <<now, engineVars>>

\* _check_external_changes, line 128: self._load_blocked_ips()
BgLoad ==
    /\ pc.bg = "load"
    /\ Commit([load_blocked_ips(Engine, now) EXCEPT !.w = "none", !.r = FALSE])
    /\ pc' = [pc EXCEPT !.bg = "expired"]
    /\ UNCHANGED now

NextExpiry ==
    \/ Tick(MaxTime) /\ Did("tick", "") /\ UNCHANGED pc /\ RaceStep
    \/ \E ip \in IPs : FgCheckEnter(ip) /\ RaceStep
    \/ FgCheckStep /\ RaceStep
    \/ BgExists /\ Did("exists", "") /\ RaceStep
    \/ BgClear /\ Did("clear", "") /\ RaceStep
    \/ BgCompare /\ Did("compare", "") /\ RaceStep
    \/ BgLoad /\ Did("reload", "") /\ RaceStep
    \/ BgLocked /\ Did("cleanup", "") /\ RaceStep

SpecExpiry == InitExpiry /\ [][NextExpiry]_vars

\* C27: a path that lifts the expired block of an address and reports it unblocked
\* leaves the address out of blocked_ips, so that the other path finds it absent:
\* a call of is_ip_blocked(ip) that has deleted the expired entry of ip returns
\* with ip absent from blocked_ips and never raises, and _cleanup_expired_blocks
\* leaves none of the addresses it collected in blocked_ips.
C27_ExpiryRemovesOnce ==
    [][/\ \A ip \in IPs :
             /\ pc.fg # <<>> /\ pc.fg[3] \in {"save", "note"}
                   /\ last' = <<"is_ip_blocked", ip>>
                   => ip \notin DOMAIN blocked_ips'
             /\ last' # <<"raised", ip>>
       /\ last' = <<"cleanup", "">> /\ pc.bg = "expired"
             => \A ip \in ToUnblock(Engine, now) : ip \notin DOMAIN blocked_ips']_vars

---------------------------------------------------------------------------
(* SpecReload: attempts, failures, successes, blocks, unblocks and status  *)
(* checks at one time, with the cleanup pass and another writer that adds  *)
(* entries to the file.  The file the process starts with may hold an      *)
(* entry whose time stamp cannot be parsed.                                *)

InitReload ==
    /\ now = 1
    /\ \E f \in InitFiles \cup {ObjectFile([ip \in {IPList[2]} |-> JunkStamp], 1)} :
          Started(Constructed(f, 1))
    /\ NoObservers
    /\ NoThreads

NextReload ==
    \/ \E ip \in IPs : /\ TrackConnectionAttempt(ip)
                       /\ Did("track_connection_attempt", ip)
                       /\ Foreground /\ FileStep
    \/ \E ip \in IPs : /\ IncrementFailureCount(ip)
                       /\ Did("increment_failure_count", ip)
                       /\ Foreground /\ FileStep
    \/ \E ip \in IPs : /\ ResetFailureCount(ip)
                       /\ Did("reset_failure_count", ip)
                       /\ Foreground /\ FileStep
    \/ \E ip \in IPs : IsIpBlocked(ip) /\ Did("is_ip_blocked", ip) /\ Foreground /\ FileStep
    \/ \E ip \in IPs : BlockIp(ip) /\ Did("block_ip", ip) /\ Foreground /\ FileStep
    \/ \E ip \in IPs : UnblockIp(ip) /\ Did("unblock_ip", ip) /\ Foreground /\ FileStep
    \/ CleanupTick /\ Did("periodic_cleanup", "") /\ Background /\ FileStep
    \/ \E ip \in IPs :
          ExternalAdd(ip, isoformat(now)) /\ Did("external", ip) /\ External /\ FileStep

SpecReload == InitReload /\ [][NextReload]_vars

\* C21: between operations no address is both in blocked_ips and in to_block or
\* connection_attempts: a blocked address has no failure score and no attempt
\* timestamps.
C21_BlockedHasNoTracking ==
    \A ip \in DOMAIN blocked_ips :
        ip \notin DOMAIN to_block /\ ip \notin DOMAIN connection_attempts

\* C26: is_ip_blocked on an address whose block time cannot be parsed does what a
\* cleanup pass does with it: the address leaves blocked_ips, its attempts and its
\* failure score are dropped, the file no longer holds it, and the call returns
\* false.
C26_UnparsableAsExpired ==
    [][\A ip \in IPs :
          /\ last' = <<"is_ip_blocked", ip>>
          /\ ip \in DOMAIN blocked_ips
          /\ ~Parsable(blocked_ips[ip])
          => /\ ret' = FALSE
             /\ ip \notin DOMAIN blocked_ips'
             /\ ip \notin DOMAIN to_block'
             /\ ip \notin DOMAIN connection_attempts'
             /\ ip \notin DOMAIN FileRecord']_vars

====
